---- MODULE Spec2Model ----
(***************************************************************************)
(* State-machine model of WhatsappService (whatsapp.service.ts): the       *)
(* handle registry and session lifecycle (startSession, initializeClient,  *)
(* restoreSessions, endSession), the dispatch engine (sendMessage), the    *)
(* campaign scheduler (sendBulkMessage / processBulkMessageBackground),    *)
(* the status tracker (messages.update) and the auto-reply engine          *)
(* (messages.upsert / handleAutoReply).                                    *)
(*                                                                         *)
(* Every `await` of the source is a suspension point; one action of the    *)
(* model is one run-to-completion segment of the JavaScript event loop     *)
(* (from the resumption of one await to the issue of the next).            *)
(* Strings are sequences of one-character tokens; the two address-domain   *)
(* names "s.whatsapp.net" and "g.us" are single tokens.                    *)
(***************************************************************************)
EXTENDS Integers, Sequences, FiniteSets, TLC

\* ------------------------------------------------------------------ bounds
\* sockets one session may open (first connection plus reconnects)
MaxSocks == 2
\* direct sendMessage calls issued by the API caller
MaxSends == 2
\* sendBulkMessage calls that pass the handle check
MaxCampaigns == 2
\* recipients submitted to sendBulkMessage, all campaigns together
MaxRecipients == 2
\* endSession calls issued by the API caller
MaxEnds == 2
\* items of messages.update events handled by the status tracker
MaxAcks == 2
\* messages of messages.upsert events handled by the auto-reply engine
MaxInbound == 2

\* characters of an inbound text evaluated on its own
MaxText == 2
\* rules of a rule set evaluated on its own
MaxRules == 2
\* characters of a delay range
MaxRange == 4
\* pieces of a message template
MaxPieces == 2
\* ------------------------------------------------------------ input domains
Sessions == {"s1", "s2"}
\* sessions that are started in the specifications below
ActiveSessions == {"s1"}
Users == {7}

\* numbers the chat network knows (answer of sock.onWhatsApp)
Registered == { <<"6", "2", "@", "s.whatsapp.net">> }

\* requests of the API caller: raw `to`, dto.file ("undefined", "url" for a
\* string starting with http, "base64" otherwise), uploaded file, dto.mediaType
Requests ==
  { \* plain text to a local number
    [to |-> <<"6", "2">>, file |-> "undefined", mediaFile |-> FALSE,
     mediaType |-> "undefined"],
    \* image by URL to a decorated number
    [to |-> <<"+", "6", "-", "2">>, file |-> "url", mediaFile |-> FALSE,
     mediaType |-> "image"],
    \* plain text to a number the network does not know
    [to |-> <<"9", "9">>, file |-> "undefined", mediaFile |-> FALSE,
     mediaType |-> "undefined"],
    \* uploaded document to a group address
    [to |-> <<"1", "2", "@", "g.us">>, file |-> "undefined", mediaFile |-> TRUE,
     mediaType |-> "document"],
    \* plain text to a pre-qualified unknown number
    [to |-> <<"9", "9", "@", "s.whatsapp.net">>, file |-> "undefined",
     mediaFile |-> FALSE, mediaType |-> "undefined"],
    \* inline base64 payload without a media kind
    [to |-> <<"6", "2">>, file |-> "base64", mediaFile |-> FALSE,
     mediaType |-> "undefined"],
    \* media kind without any source
    [to |-> <<"6", "2">>, file |-> "undefined", mediaFile |-> FALSE,
     mediaType |-> "video"] }

\* recipient lists of sendBulkMessage are prefixes of these cyclic patterns
\* (BulkMessageData carries no upload and its mediaType is any string)
TextTo62 ==
  [to |-> <<"6", "2">>, file |-> "undefined", mediaType |-> "undefined"]
TextToGroup ==
  [to |-> <<"1", "2", "@", "g.us">>, file |-> "undefined", mediaType |-> "undefined"]
TextTo99 ==
  [to |-> <<"9", "9">>, file |-> "undefined", mediaType |-> "undefined"]
AudioTo62 ==
  [to |-> <<"+", "6", "2">>, file |-> "url", mediaType |-> "audio"]

BulkPatterns ==
  { <<TextTo62, TextToGroup>>,
    <<TextTo99, TextTo62, AudioTo62>> }

VARIABLES
  clients,      \* Map<sessionId, WASocket>: generation of the socket, 0 = no entry
  sockGen,      \* per session, number of sockets created so far
  devices,      \* whatsappDevice table, keyed by sessionId
  messageLog,   \* messageLog table in creation order; row id = position
  campaigns,    \* number of campaignMessage rows; ids are 1..campaigns
  call,         \* one sendMessage invocation per slot (0: API caller, c: campaign c)
  bulkCall,     \* the sendBulkMessage invocation of the API caller
  bulk,         \* processBulkMessageBackground task of each campaign
  wire,         \* protocol-client calls issued so far (history)
  nextMsgId,    \* message ids the protocol client has assigned so far
  sends,        \* direct sendMessage calls issued so far
  boot,         \* the process: "init" before onModuleInit, then "up" or "down"
  conn,         \* per session: pending initializeClient, newest socket, handlers
  start,        \* the startSession invocation of each sessionId
  creds,        \* per session: does the folder wa_sessions/<sessionId> exist
  errorLog,     \* lines written with logger.error (history)
  unhandled,    \* rejections nobody handles: <<function, sessionId>> (history)
  endCall,      \* the endSession invocation of the API caller
  ack,          \* the messages.update item handled last (history)
  autoReply,    \* campaignAutoReply table: the rule-set rows
  reply,        \* the handleAutoReply invocation in progress
  ruleCall,     \* createAutoReply calls made so far (history)
  pure          \* one application of a helper function: input and result

baseVars == <<clients, sockGen, devices, messageLog, campaigns, call, bulkCall,
              bulk, wire, nextMsgId, sends>>

sessionVars == <<boot, conn, start, creds, errorLog, unhandled, endCall>>

trackerVars == <<ack>>

replyVars == <<autoReply, reply, ruleCall>>

pureVars == <<pure>>

extVars == <<sessionVars, trackerVars, replyVars, pureVars>>

vars == <<baseVars, extVars>>

Null == 0
DirectSlot == 0
\* the sendMessage invocation of handleAutoReply
ReplySlot == MaxCampaigns + 1
Slots == 0..ReplySlot
CampaignIds == 1..MaxCampaigns

\* ------------------------------------------------------------ string helpers
Suffix == <<"@", "s.whatsapp.net">>

IsDigit(ch) == ch \in {"0", "1", "2", "3", "4", "5", "6", "7", "8", "9"}

Includes(s, ch) == \E i \in 1..Len(s) : s[i] = ch

EndsWith(s, suf) ==
  /\ Len(s) >= Len(suf)
  /\ SubSeq(s, Len(s) - Len(suf) + 1, Len(s)) = suf

\* to.replace(/[^0-9]/g, '')
StripNonDigits(s) == SelectSeq(s, IsDigit)

\* lines 320-324
FormatTo(to) ==
  IF ~Includes(to, "@") THEN StripNonDigits(to) \o Suffix ELSE to

\* (await sock.onWhatsApp(jid))?.[0]: the protocol client's answer
OnWhatsApp(jid) == [exists |-> jid \in Registered]

NotRegisteredSkipped(result) == FALSE

\* line 328: !result || !result.exists
NotRegistered(result) == ~result.exists

\* String.prototype.toLowerCase on the letters A-Z
UpperCase == <<"A", "B", "C", "D", "E", "F", "G", "H", "I", "J", "K", "L", "M",
               "N", "O", "P", "Q", "R", "S", "T", "U", "V", "W", "X", "Y", "Z">>
LowerCase == <<"a", "b", "c", "d", "e", "f", "g", "h", "i", "j", "k", "l", "m",
               "n", "o", "p", "q", "r", "s", "t", "u", "v", "w", "x", "y", "z">>

Lower(ch) ==
  IF \E i \in 1..Len(UpperCase) : UpperCase[i] = ch
    THEN LowerCase[CHOOSE i \in 1..Len(UpperCase) : UpperCase[i] = ch]
    ELSE ch

ToLowerCase(s) == [i \in 1..Len(s) |-> Lower(s[i])]

\* String.prototype.includes: w occurs in s as a run of consecutive characters
IncludesStr(s, w) ==
  \E k \in 0..(Len(s) - Len(w)) : SubSeq(s, k + 1, k + Len(w)) = w

\* String.prototype.split(sep) for a one-character separator
RECURSIVE Split(_, _)
Split(s, sep) ==
  IF ~Includes(s, sep) THEN <<s>>
  ELSE LET i == CHOOSE k \in 1..Len(s) :
                  s[k] = sep /\ \A j \in 1..(k - 1) : s[j] # sep
       IN <<SubSeq(s, 1, i - 1)>> \o Split(SubSeq(s, i + 1, Len(s)), sep)

RECURSIVE TrimStart(_)
TrimStart(s) ==
  IF s # <<>> /\ s[1] = " " THEN TrimStart(Tail(s)) ELSE s

RECURSIVE TrimEnd(_)
TrimEnd(s) ==
  IF s # <<>> /\ s[Len(s)] = " " THEN TrimEnd(SubSeq(s, 1, Len(s) - 1)) ELSE s

\* String.prototype.trim
Trim(s) == TrimEnd(TrimStart(s))

DigitValue(ch) ==
  CASE ch = "0" -> 0 [] ch = "1" -> 1 [] ch = "2" -> 2 [] ch = "3" -> 3
    [] ch = "4" -> 4 [] ch = "5" -> 5 [] ch = "6" -> 6 [] ch = "7" -> 7
    [] ch = "8" -> 8 [] ch = "9" -> 9

RECURSIVE DigitPrefix(_)
DigitPrefix(s) ==
  IF s # <<>> /\ IsDigit(s[1]) THEN <<s[1]>> \o DigitPrefix(Tail(s)) ELSE <<>>

RECURSIVE Decimal(_)
Decimal(ds) ==
  IF ds = <<>> THEN 0
  ELSE 10 * Decimal(SubSeq(ds, 1, Len(ds) - 1)) + DigitValue(ds[Len(ds)])

\* the number parseInt returns, or NaN
NaN == [nan |-> TRUE, value |-> 0]

\* parseInt(s): leading blanks are skipped, an optional sign is read, then the
\* longest run of digits; NaN if there is no digit
ParseInt(s) ==
  LET t == TrimStart(s)
      signed == t # <<>> /\ t[1] \in {"+", "-"}
      ds == DigitPrefix(IF signed THEN Tail(t) ELSE t)
  IN IF ds = <<>> THEN NaN
     ELSE [nan |-> FALSE,
           value |-> IF signed /\ t[1] = "-" THEN 0 - Decimal(ds) ELSE Decimal(ds)]

\* ------------------------------------------------------------- delay parsing
\* line 242 with the fallback replaced by the default of line 241
MaxOrDefault(min, max) == IF max.nan THEN 10 ELSE max.value

\* line 242: if (isNaN(max)) max = min
MaxOrMin(min, max) == IF max.nan THEN min.value ELSE max.value

\* lines 239-245: the values getRandomDelay(range) can return;
\* Math.floor(Math.random() * n) is any of 0..n-1
GetRandomDelay(range) ==
  LET parts == Split(range, "-")
      vals == [i \in 1..Len(parts) |-> ParseInt(Trim(parts[i]))]
      min == vals[1]
      max == IF Len(vals) >= 2 THEN vals[2] ELSE NaN
  IN IF min.nan THEN {10}
     ELSE LET max1 == MaxOrMin(min, max)
              lo == IF min.value > max1 THEN max1 ELSE min.value
              hi == IF min.value > max1 THEN min.value ELSE max1
          IN { k + lo : k \in 0..(hi - lo) }

\* ------------------------------------------------------------------ records
\* a phoneNumber column that is NULL
NoPhone == <<>>
\* the phoneNumber argument left out
Undefined == <<"undefined">>

NoDevice == [status |-> "none", userId |-> Null, phoneNumber |-> NoPhone]

\* one initializeClient invocation and the socket it makes.  state: "none",
\* "setup" (before makeWASocket), "failed" (the setup threw), "connecting",
\* "challenged" (a QR was issued), "open", "closed".  origin: "start",
\* "restore" or "reconnect".  handlers: connection.update handlers suspended
\* at their await of updateDeviceStatus, oldest first.
NoConn ==
  [state |-> "none", origin |-> "none", userId |-> Null, waitForQr |-> FALSE,
   handlers |-> <<>>, reconnects |-> 0, inflight |-> 0, live |-> 0,
   lastLoggedOut |-> FALSE]

\* pc: "idle", "created" (row written), "waiting" (initializeWithTimeout),
\* "returned", "failed".  seen: the first QR or open event of the session
\* whose handler ran to its end while startSession was waiting.
IdleStart ==
  [pc |-> "idle", userId |-> Null, status |-> "none", qr |-> Null,
   error |-> "none", seen |-> "none"]

IdleEnd ==
  [pc |-> "idle", inst |-> 0, sessionId |-> "none", sock |-> 0,
   outcome |-> "none", error |-> <<>>]

\* n: items handled so far; upd: the item; before: the table it was applied
\* to; twice: the item before it was the same and the table was untouched
\* in between
NoAck ==
  [n |-> 0, upd |-> [id |-> Null, fromMe |-> FALSE, status |-> 0],
   before |-> <<>>, twice |-> FALSE]

\* pc: "idle", "lookup" (findFirst awaited), "sleep", "send", "done".
\* lastLog: row the lookup returned; lastAny: newest row to the sender,
\* whatever its campaignId, when the lookup ran
IdleReply ==
  [pc |-> "idle", n |-> 0, sessionId |-> "none", remoteJid |-> <<>>,
   text |-> <<>>, lastLog |-> Null, lastAny |-> Null, decision |-> "none",
   message |-> "", delay |-> 0]

\* a CreateAutoReplyDto without its campaignId
NoDto == [trace_word |-> <<>>, delay_reply |-> <<>>, body_message |-> <<>>]

NoRuleCall ==
  [called |-> {}, replaced |-> {}, last |-> [c \in CampaignIds |-> NoDto]]

NoPure == [fn |-> "none", input |-> <<>>, output |-> <<>>, done |-> FALSE]

IdleCall ==
  [pc |-> "idle", slot |-> 0, inst |-> 0, sessionId |-> "none", sock |-> 0,
   to |-> <<>>, formattedTo |-> <<>>,
   file |-> "undefined", mediaFile |-> FALSE, mediaType |-> "undefined",
   campaignId |-> Null, logId |-> Null, waMessageId |-> Null,
   transmit |-> "none", outcome |-> "none", error |-> "none"]

IdleBulk ==
  [phase |-> "none", sessionId |-> "none", data |-> <<>>, index |-> 0,
   sleeps |-> 0, attempted |-> <<>>, logged |-> <<>>]

IdleBulkCall ==
  [pc |-> "idle", sessionId |-> "none", data |-> <<>>,
   status |-> "none", campaignId |-> Null, total |-> 0]

\* one protocol-client call: op is "onWhatsApp", "presence" or "send"
WireCall(c, op, kind, media) ==
  [op |-> op, sessionId |-> c.sessionId, sock |-> c.sock, to |-> c.formattedTo,
   kind |-> kind, media |-> media, slot |-> c.slot, inst |-> c.inst]

\* everything but the process phase, the device table and the credential folders
InitRest ==
  /\ clients = [s \in Sessions |-> 0]
  /\ sockGen = [s \in Sessions |-> 0]
  /\ messageLog = <<>>
  /\ campaigns = 0
  /\ call = [x \in Slots |-> IdleCall]
  /\ bulkCall = IdleBulkCall
  /\ bulk = [c \in CampaignIds |-> IdleBulk]
  /\ wire = {}
  /\ nextMsgId = 0
  /\ sends = 0
  /\ conn = [s \in Sessions |-> NoConn]
  /\ start = [s \in Sessions |-> IdleStart]
  /\ errorLog = {}
  /\ unhandled = {}
  /\ endCall = IdleEnd
  /\ ack = NoAck
  /\ autoReply = {}
  /\ reply = IdleReply
  /\ ruleCall = NoRuleCall

\* a process that started on an empty database
InitProcess ==
  /\ boot = "up"
  /\ devices = [s \in Sessions |-> NoDevice]
  /\ creds = [s \in Sessions |-> FALSE]
  /\ InitRest

Init ==
  /\ InitProcess
  /\ pure = NoPure

\* whatsappDevice rows an earlier run of the process left behind
PersistedRows ==
  { [status |-> st, userId |-> u,
     phoneNumber |-> IF st \in {"CONNECTED", "DISCONNECTED"} THEN <<"6", "2", "8">>
                     ELSE NoPhone] :
      st \in {"INITIALIZING", "WAITING_QR", "CONNECTED", "DISCONNECTED"},
      u \in Users }

\* a process about to run onModuleInit on the database of an earlier run;
\* the folder of a session is there unless the session was closed
InitBoot ==
  /\ boot = "init"
  /\ devices \in [Sessions -> PersistedRows \cup {NoDevice}]
  /\ creds = [s \in Sessions |->
                devices[s].status \in {"INITIALIZING", "WAITING_QR", "CONNECTED"}]
  /\ InitRest
  /\ pure = NoPure

\* ----------------------------------------------------------- session manager
\* sock.user?.id once the socket is authenticated
SockUser ==
  [s \in Sessions |->
     IF s = "s1" THEN <<"6", "2", "8", ":", "1", "@", "s.whatsapp.net">>
                 ELSE <<"6", "2", "9", "@", "s.whatsapp.net">>]

\* userJid.split(':')[0]
BeforeColon(str) ==
  LET at == { i \in 1..Len(str) : str[i] = ":" }
  IN IF at = {} THEN str
     ELSE SubSeq(str, 1, (CHOOSE i \in at : \A j \in at : i <= j) - 1)

PhoneNumberUnknown(userJid) == NoPhone

\* line 157: userJid ? userJid.split(':')[0] : 'Unknown'
PhoneNumber(userJid) ==
  IF userJid = "undefined" THEN "Unknown" ELSE BeforeColon(userJid)

\* startSession: a fresh sessionId gets its whatsappDevice row, then
\* initializeClient registers the new socket (clients.set)
StartSession(s, u) ==
  /\ devices[s] = NoDevice
  /\ devices' = [devices EXCEPT ![s] = [NoDevice EXCEPT !.status = "INITIALIZING",
                                                        !.userId = u]]
  /\ sockGen' = [sockGen EXCEPT ![s] = @ + 1]
  /\ clients' = [clients EXCEPT ![s] = sockGen'[s]]
  /\ UNCHANGED <<messageLog, campaigns, call, bulkCall, bulk, wire, nextMsgId, sends>>
  /\ UNCHANGED extVars

\* lines 763-783, updateDeviceStatus: upsert keyed by sessionId; an undefined
\* phoneNumber leaves the column as it is (null on create)
UpdateDeviceStatus(devs, s, u, status, phoneNumber) ==
  [devs EXCEPT ![s] =
     IF @ = NoDevice
       THEN [status |-> status, userId |-> u,
             phoneNumber |-> IF phoneNumber = Undefined THEN NoPhone
                             ELSE phoneNumber]
       ELSE [@ EXCEPT !.status = status,
                      !.phoneNumber = IF phoneNumber = Undefined THEN @
                                      ELSE phoneNumber]]

\* connection.update with connection === 'open'
ConnectionOpen(s) ==
  /\ clients[s] # 0
  /\ devices[s].status # "CONNECTED"
  /\ devices' = UpdateDeviceStatus(devices, s, devices[s].userId, "CONNECTED",
                                 PhoneNumber(SockUser[s]))
  /\ UNCHANGED <<clients, sockGen, messageLog, campaigns, call, bulkCall, bulk,
                 wire, nextMsgId, sends>>
  /\ UNCHANGED extVars

\* connection.update with connection === 'close': logout purges the handle,
\* any other reason reconnects through initializeClient (a new socket)
ConnectionClose(s, loggedOut) ==
  /\ clients[s] # 0
  /\ devices' = UpdateDeviceStatus(devices, s, devices[s].userId, "DISCONNECTED", Undefined)
  /\ IF loggedOut
       THEN /\ clients' = [clients EXCEPT ![s] = 0]
            /\ UNCHANGED sockGen
       ELSE /\ sockGen[s] < MaxSocks
            /\ sockGen' = [sockGen EXCEPT ![s] = @ + 1]
            /\ clients' = [clients EXCEPT ![s] = sockGen'[s]]
  /\ UNCHANGED <<messageLog, campaigns, call, bulkCall, bulk, wire, nextMsgId, sends>>
  /\ UNCHANGED extVars

\* connection.update with connection === 'open' while the database is down:
\* updateDeviceStatus catches the rejection of the upsert and logs it
\* (lines 769-782); the row keeps its status
ConnectionOpenDbFails(s) ==
  /\ boot = "up"
  /\ clients[s] # 0
  /\ errorLog' = errorLog \cup {<<"Failed to update DB status", s>>}
  /\ UNCHANGED <<baseVars, boot, conn, start, creds, unhandled, endCall,
                 trackerVars, replyVars, pureVars>>

NoHandleIgnored(sock) == FALSE

\* lines 318, 444 and 608: !sock
NoHandle(sock) == sock = 0

\* ---------------------------------------------------------- session lifecycle
\* state of the dispatch engine and the campaign scheduler
sendVars == <<messageLog, campaigns, call, bulkCall, bulk, nextMsgId, sends>>

\* lines 247-260: startSession found the user and wrote the row of a fresh
\* sessionId
StartSessionCreate(s, u) ==
  /\ boot = "up"
  /\ devices[s] = NoDevice
  /\ start[s].pc = "idle"
  /\ devices' = [devices EXCEPT ![s] = [NoDevice EXCEPT !.status = "INITIALIZING",
                                                        !.userId = u]]
  /\ start' = [start EXCEPT ![s] = [IdleStart EXCEPT !.pc = "created",
                                                     !.userId = u]]
  /\ UNCHANGED <<clients, sockGen, wire, sendVars, boot, conn, creds, errorLog,
                 unhandled, endCall, trackerVars, replyVars,
                 pureVars>>

\* lines 117-124: initializeClient up to its first await; the session folder
\* exists from here on
InitializeClient(cn, origin, userId, waitForQr) ==
  [cn EXCEPT !.state = "setup", !.origin = origin, !.userId = userId,
             !.waitForQr = waitForQr,
             !.reconnects = IF origin = "reconnect" THEN @ + 1 ELSE @,
             !.inflight = @ + 1]

\* lines 262-263 and 288-298: the create resolved; initializeWithTimeout arms
\* its timer and calls initializeClient(sessionId, userId, true)
InitializeWithTimeout(s) ==
  /\ boot = "up"
  /\ start[s].pc = "created"
  /\ start' = [start EXCEPT ![s].pc = "waiting"]
  /\ conn' = [conn EXCEPT ![s] = InitializeClient(@, "start", start[s].userId, TRUE)]
  /\ creds' = [creds EXCEPT ![s] = TRUE]
  /\ UNCHANGED <<clients, sockGen, devices, wire, sendVars, boot, errorLog,
                 unhandled, endCall, trackerVars, replyVars,
                 pureVars>>

\* lines 124-232: the auth state and the version are there; the socket is
\* made, registered under its sessionId and given its handlers
MakeSocket(s) ==
  /\ boot = "up"
  /\ conn[s].state = "setup"
  /\ sockGen[s] < MaxSocks
  /\ sockGen' = [sockGen EXCEPT ![s] = @ + 1]
  /\ clients' = [clients EXCEPT ![s] = sockGen'[s]]
  /\ conn' = [conn EXCEPT ![s].state = "connecting", ![s].inflight = @ - 1,
                          ![s].live = @ + 1]
  /\ UNCHANGED <<devices, wire, sendVars, boot, start, creds, errorLog,
                 unhandled, endCall, trackerVars, replyVars,
                 pureVars>>

\* lines 117-136: useMultiFileAuthState or makeWASocket throws inside the
\* async executor of `new Promise`: the promise initializeClient returned is
\* never settled, so no .catch of a caller runs (lines 107, 181, 303); the
\* rejection is unhandled and, depending on the runtime's
\* unhandled-rejections mode, ends the process
SetupThrows(s, fatal) ==
  /\ boot = "up"
  /\ conn[s].state = "setup"
  /\ conn' = [conn EXCEPT ![s].state = "failed", ![s].inflight = @ - 1]
  /\ unhandled' = unhandled \cup {<<"initializeClient", s>>}
  /\ boot' = IF fatal THEN "down" ELSE boot
  /\ UNCHANGED <<clients, sockGen, devices, wire, sendVars, start, creds,
                 errorLog, endCall, trackerVars, replyVars,
                 pureVars>>

\* the handler of lines 169-185 taking every close for a lost connection
HandlerForgetsReason(cn, kind, qr, loggedOut) ==
  [kind |-> kind, qr |-> qr, loggedOut |-> FALSE, waitForQr |-> cn.waitForQr,
   applied |-> TRUE]

\* a connection.update handler suspended at `await updateDeviceStatus`;
\* `applied` tells whether the database has carried out its upsert
Handler(cn, kind, qr, loggedOut) ==
  [kind |-> kind, qr |-> qr, loggedOut |-> loggedOut, waitForQr |-> cn.waitForQr,
   applied |-> TRUE]

\* lines 149, 159-164 and 175: the status a handler of this kind writes
HandlerStatus(kind) ==
  IF kind = "qr" THEN "WAITING_QR"
  ELSE IF kind = "open" THEN "CONNECTED" ELSE "DISCONNECTED"

\* lines 145-149: the socket issues a QR challenge; the handler runs up to
\* the await of the WAITING_QR upsert
QrUpdate(s) ==
  /\ boot = "up"
  /\ conn[s].state = "connecting"
  /\ devices' = UpdateDeviceStatus(devices, s, conn[s].userId, "WAITING_QR",
                                   Undefined)
  /\ conn' = [conn EXCEPT ![s].state = "challenged",
                          ![s].handlers =
                             Append(@, Handler(conn[s], "qr", sockGen[s], FALSE))]
  /\ UNCHANGED <<clients, sockGen, wire, sendVars, boot, start, creds, errorLog,
                 unhandled, endCall, trackerVars, replyVars,
                 pureVars>>

\* lines 154-164: the connection opens; the handler runs up to the await of
\* the CONNECTED upsert
OpenUpdate(s) ==
  /\ boot = "up"
  /\ conn[s].state \in {"connecting", "challenged"}
  /\ devices' = UpdateDeviceStatus(devices, s, conn[s].userId, "CONNECTED",
                                   PhoneNumber(SockUser[s]))
  /\ conn' = [conn EXCEPT ![s].state = "open",
                          ![s].handlers =
                             Append(@, Handler(conn[s], "open", Null, FALSE))]
  /\ UNCHANGED <<clients, sockGen, wire, sendVars, boot, start, creds, errorLog,
                 unhandled, endCall, trackerVars, replyVars,
                 pureVars>>

\* lines 169-175: the connection closes; the handler runs up to the await of
\* the DISCONNECTED upsert
CloseUpdate(s, loggedOut) ==
  /\ boot = "up"
  /\ conn[s].state \in {"connecting", "challenged", "open"}
  /\ devices' = UpdateDeviceStatus(devices, s, conn[s].userId, "DISCONNECTED",
                                   Undefined)
  /\ conn' = [conn EXCEPT ![s].state = "closed", ![s].live = @ - 1,
                          ![s].lastLoggedOut = loggedOut,
                          ![s].handlers =
                             Append(@, Handler(conn[s], "close", Null, loggedOut))]
  /\ UNCHANGED <<clients, sockGen, wire, sendVars, boot, start, creds, errorLog,
                 unhandled, endCall, trackerVars, replyVars,
                 pureVars>>

\* lines 169-175: a socket of the session that has closed for a reason other
\* than logout delivers its close event once more; nothing in the handler
\* tells the second delivery from the first
CloseAgain(s) ==
  /\ boot = "up"
  /\ sockGen[s] > conn[s].live
  /\ ~conn[s].lastLoggedOut
  /\ conn[s].reconnects < MaxSocks
  /\ Len(conn[s].handlers) < MaxSocks
  /\ devices' = UpdateDeviceStatus(devices, s, conn[s].userId, "DISCONNECTED",
                                   Undefined)
  /\ conn' = [conn EXCEPT ![s].handlers =
                             Append(@, Handler(conn[s], "close", Null, FALSE))]
  /\ UNCHANGED <<clients, sockGen, wire, sendVars, boot, start, creds, errorLog,
                 unhandled, endCall, trackerVars, replyVars,
                 pureVars>>

\* lines 151, 166, 265-279 and 299-302: resolve(res) of a handler made with
\* waitForQr settles initializeWithTimeout if it is still pending, and
\* startSession returns; otherwise nothing listens
Resolve(st, h) ==
  LET st1 == [st EXCEPT !.seen = IF st.pc = "waiting" /\ @ = "none" THEN h.kind
                                 ELSE @]
  IN IF h.waitForQr /\ st.pc = "waiting"
       THEN [st1 EXCEPT !.pc = "returned",
                        !.status = IF h.qr = Null THEN "CONNECTED" ELSE "WAITING_QR",
                        !.qr = h.qr]
       ELSE st1

ClosePurgesAlways(h) == TRUE

\* line 177: reason === DisconnectReason.loggedOut
ClosePurges(h) == h.loggedOut

\* lines 151, 166 and 177-184: the upsert of the oldest suspended handler
\* resolved and the handler runs to its end
HandlerResume(s) ==
  /\ boot = "up"
  /\ conn[s].handlers # <<>>
  /\ Head(conn[s].handlers).applied
  /\ LET h == Head(conn[s].handlers)
         cn == [conn[s] EXCEPT !.handlers = Tail(@)]
     IN IF h.kind = "close"
          THEN /\ IF ClosePurges(h)
                    THEN /\ clients' = [clients EXCEPT ![s] = 0]
                         /\ creds' = [creds EXCEPT ![s] = FALSE]
                         /\ conn' = [conn EXCEPT ![s] = cn]
                    ELSE /\ conn' = [conn EXCEPT ![s] =
                                       InitializeClient(cn, "reconnect",
                                                        conn[s].userId, FALSE)]
                         /\ creds' = [creds EXCEPT ![s] = TRUE]
                         /\ UNCHANGED clients
               /\ UNCHANGED start
          ELSE /\ start' = [start EXCEPT ![s] = Resolve(@, h)]
               /\ conn' = [conn EXCEPT ![s] = cn]
               /\ UNCHANGED <<clients, creds>>
  /\ UNCHANGED <<sockGen, devices, wire, sendVars, boot, errorLog, unhandled,
                 endCall, trackerVars, replyVars,
                 pureVars>>

\* lines 142-175 and 763-776: an event is delivered and its handler runs up to
\* the await of its upsert; the query is on its way to the database and has
\* not been carried out yet
EventIssued(s, kind, loggedOut) ==
  /\ boot = "up"
  /\ conn[s].state \in
       (IF kind = "qr" THEN {"connecting"}
        ELSE IF kind = "open" THEN {"connecting", "challenged"}
        ELSE {"connecting", "challenged", "open"})
  /\ conn' = [conn EXCEPT
       ![s].state = IF kind = "qr" THEN "challenged"
                    ELSE IF kind = "open" THEN "open" ELSE "closed",
       ![s].live = IF kind = "close" THEN @ - 1 ELSE @,
       ![s].lastLoggedOut = IF kind = "close" THEN loggedOut ELSE @,
       ![s].handlers =
          Append(@, [Handler(conn[s], kind,
                             IF kind = "qr" THEN sockGen[s] ELSE Null,
                             loggedOut) EXCEPT !.applied = FALSE])]
  /\ UNCHANGED <<clients, sockGen, devices, wire, sendVars, boot, start, creds,
                 errorLog, unhandled, endCall, trackerVars, replyVars,
                 pureVars>>

\* lines 765-776: the database carries out the upsert of one suspended
\* handler; upserts of handlers that are suspended together travel on
\* separate pool connections and are carried out in either order
UpsertApplied(s, i) ==
  /\ boot = "up"
  /\ i \in 1..Len(conn[s].handlers)
  /\ ~conn[s].handlers[i].applied
  /\ devices' = UpdateDeviceStatus(
                   devices, s, conn[s].userId,
                   HandlerStatus(conn[s].handlers[i].kind),
                   IF conn[s].handlers[i].kind = "open"
                     THEN PhoneNumber(SockUser[s]) ELSE Undefined)
  /\ conn' = [conn EXCEPT ![s].handlers[i].applied = TRUE]
  /\ UNCHANGED <<clients, sockGen, wire, sendVars, boot, start, creds, errorLog,
                 unhandled, endCall, trackerVars, replyVars,
                 pureVars>>

\* lines 294-296 and 280-285: the 60 s timer fires first; the catch block of
\* startSession drops the registry entry and throws RequestTimeoutException
StartTimeout(s) ==
  /\ boot = "up"
  /\ start[s].pc = "waiting"
  /\ start' = [start EXCEPT ![s].pc = "failed", ![s].error = "QrTimeout"]
  /\ clients' = [clients EXCEPT ![s] = 0]
  /\ UNCHANGED <<sockGen, devices, wire, sendVars, boot, conn, creds, errorLog,
                 unhandled, endCall, trackerVars, replyVars,
                 pureVars>>

RestoredAll(devs) == { s \in Sessions : devs[s] # NoDevice }

\* lines 100-102: findMany({ where: { status: 'CONNECTED' } })
Restored(devs) == { s \in Sessions : devs[s].status = "CONNECTED" }

\* lines 90-111: onModuleInit; every row found gets an initializeClient call
\* that is not awaited
RestoreSessions ==
  /\ boot = "init"
  /\ boot' = "up"
  /\ conn' = [s \in Sessions |->
                IF s \in Restored(devices)
                  THEN InitializeClient(conn[s], "restore", devices[s].userId, FALSE)
                  ELSE conn[s]]
  /\ creds' = [s \in Sessions |-> creds[s] \/ s \in Restored(devices)]
  /\ UNCHANGED <<clients, sockGen, devices, wire, sendVars, start, errorLog,
                 unhandled, endCall, trackerVars, replyVars,
                 pureVars>>

\* lines 606-610: endSession looks the handle up and issues sock.logout()
EndSession(s) ==
  /\ boot = "up"
  /\ endCall.pc \in {"idle", "done"}
  /\ endCall.inst < MaxEnds
  /\ LET e == [IdleEnd EXCEPT !.inst = endCall.inst + 1, !.sessionId = s,
                              !.sock = clients[s]]
     IN IF NoHandle(clients[s])
          THEN /\ endCall' = [e EXCEPT !.pc = "done", !.outcome = "threw",
                                       !.error = <<"Sesi tidak aktif">>]
               /\ UNCHANGED wire
          ELSE /\ endCall' = [e EXCEPT !.pc = "logout"]
               /\ wire' = wire \cup
                    {[op |-> "logout", sessionId |-> s, sock |-> e.sock,
                      to |-> <<>>, kind |-> "none", media |-> "none",
                      slot |-> "end", inst |-> e.inst]}
  /\ UNCHANGED <<clients, sockGen, devices, sendVars, boot, conn, start, creds,
                 errorLog, unhandled, trackerVars, replyVars,
                 pureVars>>

LogoutRaw(e) == <<e>>

\* line 613: new BadRequestException('Gagal logout: ' + e.message)
LogoutFailure(e) == <<"Gagal logout: ", e>>

\* lines 610-614 with a status write of endSession's own after the logout
LogoutResultPersists(ok) ==
  /\ boot = "up"
  /\ endCall.pc = "logout"
  /\ endCall' = IF ok
                  THEN [endCall EXCEPT !.pc = "done", !.outcome = "success"]
                  ELSE [endCall EXCEPT !.pc = "done", !.outcome = "threw",
                                       !.error = LogoutFailure("Connection Closed")]
  /\ devices' = UpdateDeviceStatus(devices, endCall.sessionId,
                                   devices[endCall.sessionId].userId,
                                   "DISCONNECTED", Undefined)
  /\ UNCHANGED <<clients, sockGen, wire, sendVars, boot, conn, start,
                 creds, errorLog, unhandled, trackerVars, replyVars,
                 pureVars>>

\* lines 610-614: sock.logout() resolves or rejects with a lower-level error
LogoutResult(ok) ==
  /\ boot = "up"
  /\ endCall.pc = "logout"
  /\ endCall' = IF ok
                  THEN [endCall EXCEPT !.pc = "done", !.outcome = "success"]
                  ELSE [endCall EXCEPT !.pc = "done", !.outcome = "threw",
                                       !.error = LogoutFailure("Connection Closed")]
  /\ UNCHANGED <<clients, sockGen, devices, wire, sendVars, boot, conn, start,
                 creds, errorLog, unhandled, trackerVars, replyVars,
                 pureVars>>

\* one step of the lifecycle of session s
Lifecycle(s) ==
  \/ \E u \in Users : StartSessionCreate(s, u)
  \/ InitializeWithTimeout(s)
  \/ MakeSocket(s)
  \/ \E fatal \in BOOLEAN : SetupThrows(s, fatal)
  \/ QrUpdate(s)
  \/ OpenUpdate(s)
  \/ \E loggedOut \in BOOLEAN : CloseUpdate(s, loggedOut)
  \/ HandlerResume(s)
  \/ StartTimeout(s)

\* startup on the database of an earlier run, then the session manager
NextSession ==
  \/ RestoreSessions
  \/ \E s \in Sessions : Lifecycle(s)

\* the session manager when a close event can be delivered more than once
NextClose ==
  \/ \E s \in ActiveSessions : Lifecycle(s)
  \/ \E s \in ActiveSessions : CloseAgain(s)

SpecClose == Init /\ [][NextClose]_vars

\* the session manager with the upsert of each handler as a step of its own
NextEvents ==
  \/ \E s \in ActiveSessions, u \in Users : StartSessionCreate(s, u)
  \/ \E s \in ActiveSessions : InitializeWithTimeout(s)
  \/ \E s \in ActiveSessions : MakeSocket(s)
  \/ \E s \in ActiveSessions, fatal \in BOOLEAN : SetupThrows(s, fatal)
  \/ \E s \in ActiveSessions, kind \in {"qr", "open", "close"},
        loggedOut \in BOOLEAN :
       (kind # "close" => ~loggedOut) /\ EventIssued(s, kind, loggedOut)
  \/ \E s \in ActiveSessions :
       \E i \in 1..Len(conn[s].handlers) : UpsertApplied(s, i)
  \/ \E s \in ActiveSessions : HandlerResume(s)
  \/ \E s \in ActiveSessions : StartTimeout(s)

SpecEvents == Init /\ [][NextEvents]_vars

SpecSession == InitBoot /\ [][NextSession]_vars

\* endSession against the lifecycle of one session
NextEnd ==
  \/ \E s \in ActiveSessions : Lifecycle(s)
  \/ \E s \in Sessions : EndSession(s)
  \/ \E ok \in BOOLEAN : LogoutResult(ok)

SpecEnd == Init /\ [][NextEnd]_vars

\* ----------------------------------------------------------- dispatch engine
\* lines 346: hasAttachment = mediaFile || file
HasAttachment(c) == c.mediaFile \/ c.file # "undefined"

\* lines 315-334, the synchronous prefix of sendMessage: handle lookup,
\* recipient normalisation, and the first protocol call
SendMessageEntry(regs, dto, mediaFile, campaignId, slot, inst) ==
  LET sock == regs[dto.sessionId]
      c0 == [IdleCall EXCEPT !.slot = slot, !.inst = inst,
                             !.sessionId = dto.sessionId,
                             !.sock = sock, !.to = dto.to,
                             !.file = dto.file, !.mediaFile = mediaFile,
                             !.mediaType = dto.mediaType,
                             !.campaignId = campaignId]
  IN IF NoHandle(sock)
       THEN [c0 EXCEPT !.pc = "done", !.outcome = "threw",
                       !.error = "SessionNotFound"]
       ELSE LET f == FormatTo(dto.to)
            IN [c0 EXCEPT !.formattedTo = f,
                          !.pc = IF EndsWith(f, Suffix) THEN "onWhatsApp"
                                                        ELSE "presence"]

\* the protocol call issued by the synchronous prefix, if any
EntryWire(c) ==
  IF c.pc = "done" THEN {} ELSE {WireCall(c, c.pc, "none", "none")}

\* lines 310-334: sendMessage called by the API caller
SendMessage(s, r) ==
  /\ call[DirectSlot].pc \in {"idle", "done"}
  /\ sends < MaxSends
  /\ sends' = sends + 1
  /\ LET dto == [sessionId |-> s, to |-> r.to, file |-> r.file,
                 mediaType |-> r.mediaType]
         c == SendMessageEntry(clients, dto, r.mediaFile, Null, DirectSlot, sends')
     IN /\ call' = [call EXCEPT ![DirectSlot] = c]
        /\ wire' = wire \cup EntryWire(c)
  /\ UNCHANGED <<clients, sockGen, devices, messageLog, campaigns, bulkCall,
                 bulk, nextMsgId>>
  /\ UNCHANGED extVars

\* lines 327-334: the registration answer arrives
OnWhatsAppResult(x) ==
  /\ call[x].pc = "onWhatsApp"
  /\ IF NotRegistered(OnWhatsApp(call[x].formattedTo))
       THEN /\ call' = [call EXCEPT ![x].pc = "done", ![x].outcome = "threw",
                                    ![x].error = "RecipientNotRegistered"]
            /\ UNCHANGED wire
       ELSE /\ call' = [call EXCEPT ![x].pc = "presence"]
            /\ wire' = wire \cup {WireCall(call'[x], "presence", "none", "none")}
  /\ UNCHANGED <<clients, sockGen, devices, messageLog, campaigns, bulkCall,
                 bulk, nextMsgId, sends>>
  /\ UNCHANGED extVars

\* lines 334-339: the presence update resolved, the typing sleep starts
TypingStart(x) ==
  /\ call[x].pc = "presence"
  /\ call' = [call EXCEPT ![x].pc = "typing"]
  /\ UNCHANGED <<clients, sockGen, devices, messageLog, campaigns, bulkCall,
                 bulk, wire, nextMsgId, sends>>
  /\ UNCHANGED extVars

\* lines 339-348: the typing sleep is over; device lookup and create are issued
TypingDone(x) ==
  /\ call[x].pc = "typing"
  /\ call' = [call EXCEPT ![x].pc = "create"]
  /\ UNCHANGED <<clients, sockGen, devices, messageLog, campaigns, bulkCall,
                 bulk, wire, nextMsgId, sends>>
  /\ UNCHANGED extVars

\* lines 341-356: the row written by prisma.messageLog.create
NewLog(c, devs) ==
  [to |-> c.formattedTo,
   attachment |-> IF HasAttachment(c) THEN c.mediaType ELSE "none",
   status |-> "PENDING",
   waMessageId |-> Null,
   userId |-> IF devs[c.sessionId] = NoDevice THEN Null
              ELSE devs[c.sessionId].userId,
   campaignId |-> c.campaignId,
   slot |-> c.slot, inst |-> c.inst]

LogCreateLost(rows, row) == rows

\* prisma.messageLog.create
LogCreate(rows, row) == Append(rows, row)

CreateLog(x) ==
  /\ call[x].pc = "create"
  /\ messageLog' = LogCreate(messageLog, NewLog(call[x], devices))
  /\ call' = [call EXCEPT ![x].pc = "created", ![x].logId = Len(messageLog) + 1]
  /\ UNCHANGED <<clients, sockGen, devices, campaigns, bulkCall, bulk, wire,
                 nextMsgId, sends>>
  /\ UNCHANGED extVars

\* lines 374-390: which byte source the attachment resolves to
MediaSource(c) ==
  IF c.mediaFile THEN "buffer"
  ELSE IF c.file = "url" THEN "url"
  ELSE IF c.file = "base64" THEN "decoded"
  ELSE "none"

\* lines 359-418: what the try block does before its first await:
\* "send" with the media kind, or the message of the exception it throws
TryBlock(c) ==
  IF ~HasAttachment(c) THEN [act |-> "send", kind |-> "text", media |-> "none"]
  ELSE IF c.mediaType = "undefined"
    THEN [act |-> "throw", kind |-> "UnsupportedMediaType", media |-> "none"]
  ELSE IF MediaSource(c) = "none"
    THEN [act |-> "throw", kind |-> "NoMediaSource", media |-> "none"]
  ELSE IF c.mediaType \in {"image", "video", "document"}
    THEN [act |-> "send", kind |-> c.mediaType, media |-> MediaSource(c)]
  ELSE [act |-> "throw", kind |-> "UnsupportedKind", media |-> "none"]

\* lines 358-418: the create resolved; the try block runs up to the transmit
\* call or throws into the catch block, which issues the FAILED update
Dispatch(x) ==
  /\ call[x].pc = "created"
  /\ LET t == TryBlock(call[x])
     IN IF t.act = "send"
          THEN /\ call' = [call EXCEPT ![x].pc = "transmit",
                                       ![x].transmit = "issued"]
               /\ wire' = wire \cup {WireCall(call[x], "send", t.kind, t.media)}
          ELSE /\ call' = [call EXCEPT ![x].pc = "catch", ![x].error = t.kind]
               /\ UNCHANGED wire
  /\ UNCHANGED <<clients, sockGen, devices, messageLog, campaigns, bulkCall,
                 bulk, nextMsgId, sends>>
  /\ UNCHANGED extVars

\* lines 362-420: sock.sendMessage resolves with a message whose key.id the
\* protocol client assigned, or rejects
TransmitResult(x, ok) ==
  /\ call[x].pc = "transmit"
  /\ IF ok
       THEN /\ nextMsgId' = nextMsgId + 1
            /\ call' = [call EXCEPT ![x].pc = "updateSent",
                                    ![x].transmit = "ok",
                                    ![x].waMessageId = nextMsgId']
       ELSE /\ call' = [call EXCEPT ![x].pc = "catch",
                                    ![x].transmit = "threw",
                                    ![x].error = "TransmitFailure"]
            /\ UNCHANGED nextMsgId
  /\ UNCHANGED <<clients, sockGen, devices, messageLog, campaigns, bulkCall,
                 bulk, wire, sends>>
  /\ UNCHANGED extVars

\* MessageLog_waMessageId_key: would writing wa into row id break the index?
UniqueViolation(rows, id, wa) ==
  /\ wa # Null
  /\ \E j \in DOMAIN rows : j # id /\ rows[j].waMessageId = wa

SentDataNoId(wa) == [status |-> "SENT", waMessageId |-> Null]

\* lines 422-428: data of the update after a successful transmit
SentData(wa) == [status |-> "SENT", waMessageId |-> wa]

\* prisma.messageLog.update({ where: { id }, data })
LogUpdate(rows, id, data) ==
  IF id \in DOMAIN rows
    THEN [rows EXCEPT ![id] = [f \in DOMAIN @ |->
                                 IF f \in DOMAIN data THEN data[f] ELSE @[f]]]
    ELSE rows

\* lines 420-431: the SENT update executes and sendMessage returns success;
\* an update the unique index rejects lands in the catch block
UpdateSent(x) ==
  /\ call[x].pc = "updateSent"
  /\ LET d == SentData(call[x].waMessageId)
     IN IF UniqueViolation(messageLog, call[x].logId, d.waMessageId)
          THEN /\ call' = [call EXCEPT ![x].pc = "catch", ![x].error = "P2002"]
               /\ UNCHANGED messageLog
          ELSE /\ messageLog' = LogUpdate(messageLog, call[x].logId, d)
               /\ call' = [call EXCEPT ![x].pc = "done", ![x].outcome = "success"]
  /\ UNCHANGED <<clients, sockGen, devices, campaigns, bulkCall, bulk, wire,
                 nextMsgId, sends>>
  /\ UNCHANGED extVars

FailedDataPending == [status |-> "PENDING"]

\* lines 432-435: data of the update in the catch block
FailedData == [status |-> "FAILED"]

\* lines 431-437 without the update: the catch block only returns
UpdateFailedSkipped(x) ==
  /\ call[x].pc = "catch"
  /\ call' = [call EXCEPT ![x].pc = "done", ![x].outcome = "failed"]
  /\ UNCHANGED <<clients, sockGen, devices, messageLog, campaigns, bulkCall,
                 bulk, wire, nextMsgId, sends>>
  /\ UNCHANGED extVars

\* lines 431-437: the FAILED update executes and sendMessage returns the
\* structured failure
UpdateFailed(x) ==
  /\ call[x].pc = "catch"
  /\ messageLog' = LogUpdate(messageLog, call[x].logId, FailedData)
  /\ call' = [call EXCEPT ![x].pc = "done", ![x].outcome = "failed"]
  /\ UNCHANGED <<clients, sockGen, devices, campaigns, bulkCall, bulk, wire,
                 nextMsgId, sends>>
  /\ UNCHANGED extVars

\* ------------------------------------------------------------ status tracker
\* WAMessageStatus of the protocol client: ERROR = 0, PENDING = 1,
\* SERVER_ACK = 2, DELIVERY_ACK = 3, READ = 4, PLAYED = 5
WAMessageStatus == 0..5

\* items of a messages.update event: key.id, key.fromMe, update.status
\* (every status for our own messages, a delivery receipt for a foreign one)
Updates ==
  [id : 1..MaxSends, fromMe : {TRUE}, status : WAMessageStatus]
    \cup [id : 1..MaxSends, fromMe : {FALSE}, status : {3}]

\* lines 194-209: the switch over statusRaw
StatusString(statusRaw) ==
  CASE statusRaw = 2 -> "SENT"
    [] statusRaw = 3 -> "DELIVERED"
    [] statusRaw \in {4, 5} -> "READ"
    [] OTHER -> "PENDING"

\* line 190: update.update.status && update.key.fromMe (0 is falsy)
Tracked(upd) == upd.status # 0 /\ upd.fromMe

\* the filter of lines 215-218 with rows whose id is unassigned let through
UpdateManyUnassigned(rows, wa, status) ==
  [j \in DOMAIN rows |->
     IF rows[j].waMessageId \in {wa, Null}
       THEN [rows[j] EXCEPT !.status = status]
       ELSE rows[j]]

UpdateManyToggle(rows, wa, status) ==
  [j \in DOMAIN rows |->
     IF rows[j].waMessageId = wa
       THEN [rows[j] EXCEPT !.status = IF @ = status THEN "PENDING" ELSE status]
       ELSE rows[j]]

\* lines 215-218: prisma.messageLog.updateMany({ where: { waMessageId }, data: { status } })
UpdateMany(rows, wa, status) ==
  [j \in DOMAIN rows |->
     IF rows[j].waMessageId = wa THEN [rows[j] EXCEPT !.status = status]
                                 ELSE rows[j]]

\* position of a status in the life of a message
Rank(status) ==
  CASE status = "READ" -> 3
    [] status = "DELIVERED" -> 2
    [] status = "SENT" -> 1
    [] OTHER -> 0

TrackerApplyGuarded(rows, upd) ==
  IF Tracked(upd)
    THEN [j \in DOMAIN rows |->
            IF /\ rows[j].waMessageId = upd.id
               /\ Rank(rows[j].status) <= Rank(StatusString(upd.status))
              THEN [rows[j] EXCEPT !.status = StatusString(upd.status)]
              ELSE rows[j]]
    ELSE rows

\* lines 189-219: what one item of the event does to the table
TrackerApply(rows, upd) ==
  IF Tracked(upd) THEN UpdateMany(rows, upd.id, StatusString(upd.status))
                  ELSE rows

\* lines 188-221: the socket of session s delivers one item of messages.update
MessagesUpdate(s, upd) ==
  /\ clients[s] # 0
  /\ ack.n < MaxAcks
  /\ messageLog' = TrackerApply(messageLog, upd)
  /\ ack' = [n |-> ack.n + 1, upd |-> upd, before |-> messageLog,
             twice |-> /\ ack.n > 0
                       /\ ack.upd = upd
                       /\ messageLog = TrackerApply(ack.before, ack.upd)]
  /\ UNCHANGED <<clients, sockGen, devices, campaigns, call, bulkCall, bulk,
                 wire, nextMsgId, sends, sessionVars, replyVars,
                 pureVars>>

\* lines 188-219: prisma.messageLog.updateMany rejects; the handler has no
\* try, so the promise of the async listener rejects with nobody listening
\* and the remaining items of the event are skipped
MessagesUpdateThrows(s, upd, fatal) ==
  /\ boot = "up"
  /\ clients[s] # 0
  /\ Tracked(upd)
  /\ <<"messages.update", s>> \notin unhandled
  /\ unhandled' = unhandled \cup {<<"messages.update", s>>}
  /\ boot' = IF fatal THEN "down" ELSE boot
  /\ UNCHANGED <<baseVars, conn, start, creds, errorLog, endCall, trackerVars,
                 replyVars, pureVars>>

\* -------------------------------------------------------- campaign scheduler
\* every recipient list sendBulkMessage may be given
BulkData ==
  { [i \in 1..n |-> p[((i - 1) % Len(p)) + 1]] :
      p \in BulkPatterns, n \in 0..MaxRecipients }

BulkSendUntagged(regs, b, c, i) ==
  SendMessageEntry(regs,
                   [sessionId |-> b.sessionId, to |-> b.data[i].to,
                    file |-> b.data[i].file, mediaType |-> b.data[i].mediaType],
                   FALSE, Null, c, i)

\* lines 555-576: one loop iteration up to the first await of sendMessage
\* (a BulkMessageData item never carries an uploaded file)
BulkSend(regs, b, c, i) ==
  SendMessageEntry(regs,
                   [sessionId |-> b.sessionId, to |-> b.data[i].to,
                    file |-> b.data[i].file, mediaType |-> b.data[i].mediaType],
                   FALSE, c, c, i)

\* recipients handed to the background tasks so far
RECURSIVE SumLen(_)
SumLen(c) == IF c = 0 THEN 0 ELSE Len(bulk[c].data) + SumLen(c - 1)
Submitted == SumLen(MaxCampaigns)

\* lines 440-445: sendBulkMessage called by the API caller
SendBulkMessage(s, data) ==
  /\ bulkCall.pc \in {"idle", "done"}
  /\ campaigns < MaxCampaigns
  /\ Len(data) + Submitted <= MaxRecipients
  /\ bulkCall' =
       IF NoHandle(clients[s])
         THEN [IdleBulkCall EXCEPT !.pc = "done", !.sessionId = s, !.data = data,
                                   !.status = "SessionNotFound"]
         ELSE [IdleBulkCall EXCEPT !.pc = "create", !.sessionId = s, !.data = data]
  /\ UNCHANGED <<clients, sockGen, devices, messageLog, campaigns, call, bulk,
                 wire, nextMsgId, sends>>
  /\ UNCHANGED extVars

BulkReturnZero(bc, c) ==
  [bc EXCEPT !.pc = "done", !.status = "PROCESSING", !.campaignId = c,
             !.total = 0]

\* lines 462-468: the value sendBulkMessage returns
BulkReturn(bc, c) ==
  [bc EXCEPT !.pc = "done", !.status = "PROCESSING", !.campaignId = c,
             !.total = Len(bc.data)]

\* lines 447-469: the campaign row is created, the background task runs up to
\* its first await, and sendBulkMessage returns
SendBulkCreate ==
  /\ bulkCall.pc = "create"
  /\ campaigns' = campaigns + 1
  /\ LET c == campaigns'
         b == [IdleBulk EXCEPT !.sessionId = bulkCall.sessionId,
                               !.data = bulkCall.data]
     IN /\ IF Len(b.data) = 0
             THEN /\ bulk' = [bulk EXCEPT ![c] = [b EXCEPT !.phase = "done"]]
                  /\ UNCHANGED <<call, wire>>
             ELSE /\ bulk' = [bulk EXCEPT ![c] =
                                [b EXCEPT !.phase = "send", !.index = 1,
                                          !.attempted = <<1>>]]
                  /\ call' = [call EXCEPT ![c] = BulkSend(clients, b, c, 1)]
                  /\ wire' = wire \cup EntryWire(call'[c])
        /\ bulkCall' = BulkReturn(bulkCall, c)
  /\ UNCHANGED <<clients, sockGen, devices, messageLog, nextMsgId, sends>>
  /\ UNCHANGED extVars

AfterSendAbort(b, c) ==
  LET line == IF c.outcome = "threw" THEN c.error ELSE "terkirim"
      b1 == [b EXCEPT !.logged = Append(@, line)]
  IN IF b.index < Len(b.data) /\ c.outcome # "threw"
       THEN [b1 EXCEPT !.phase = "sleep", !.sleeps = @ + 1]
       ELSE [b1 EXCEPT !.phase = "done"]

\* lines 546-553 and 577-582: what the loop does once the awaited sendMessage
\* of item b.index has returned or thrown
\* (`logged` is the line written for the item: "terkirim" when sendMessage
\* returned, the error message when it threw)
AfterSend(b, c) ==
  LET line == IF c.outcome = "threw" THEN c.error ELSE "terkirim"
      b1 == [b EXCEPT !.logged = Append(@, line)]
  IN IF b.index < Len(b.data)
       THEN [b1 EXCEPT !.phase = "sleep", !.sleeps = @ + 1]
       ELSE [b1 EXCEPT !.phase = "done"]

\* line 565 without its await: the loop goes on while sendMessage is running
BulkAfterSendEarly(c) ==
  /\ bulk[c].phase = "send"
  /\ bulk' = [bulk EXCEPT ![c] = AfterSend(bulk[c], call[c])]
  /\ UNCHANGED <<clients, sockGen, devices, messageLog, campaigns, call,
                 bulkCall, wire, nextMsgId, sends>>
  /\ UNCHANGED extVars

\* the sendMessage of the current item settled: log, then pace or finish
BulkAfterSend(c) ==
  /\ bulk[c].phase = "send"
  /\ call[c].pc = "done"
  /\ bulk' = [bulk EXCEPT ![c] = AfterSend(bulk[c], call[c])]
  /\ UNCHANGED <<clients, sockGen, devices, messageLog, campaigns, call,
                 bulkCall, wire, nextMsgId, sends>>
  /\ UNCHANGED extVars

\* the loop of lines 546-576 sending every item through the handle that the
\* first item of the campaign found in the registry
BulkWakeFirstHandle(c) ==
  /\ bulk[c].phase = "sleep"
  /\ LET i == bulk[c].index + 1
         regs == [clients EXCEPT ![bulk[c].sessionId] = call[c].sock]
     IN /\ bulk' = [bulk EXCEPT ![c].phase = "send", ![c].index = i,
                                ![c].attempted = Append(@, i)]
        /\ call' = [call EXCEPT ![c] = BulkSend(regs, bulk[c], c, i)]
        /\ wire' = wire \cup EntryWire(call'[c])
  /\ UNCHANGED <<clients, sockGen, devices, messageLog, campaigns, bulkCall,
                 nextMsgId, sends>>
  /\ UNCHANGED extVars

\* lines 552-576: the pacing sleep is over; the next item is sent
BulkWake(c) ==
  /\ bulk[c].phase = "sleep"
  /\ LET i == bulk[c].index + 1
     IN /\ bulk' = [bulk EXCEPT ![c].phase = "send", ![c].index = i,
                                ![c].attempted = Append(@, i)]
        /\ call' = [call EXCEPT ![c] = BulkSend(clients, bulk[c], c, i)]
        /\ wire' = wire \cup EntryWire(call'[c])
  /\ UNCHANGED <<clients, sockGen, devices, messageLog, campaigns, bulkCall,
                 nextMsgId, sends>>
  /\ UNCHANGED extVars

\* ---------------------------------------------------------- auto-reply engine
\* JSON.stringify of an array of strings or rules, and JSON.parse of the text
JsonStringify(v) == <<"json", v>>
JsonParse(t) == t[2]

\* the rule-set rows of campaign c (CampaignAutoReply.campaignId is unique)
AutoReplyOf(rows, c) == { r \in rows : r.campaignId = c }

\* lines 679-689: the column values of the update and of the create branch
AutoReplyData(c, dto) ==
  [campaignId |-> c,
   traceWords |-> JsonStringify(dto.trace_word),
   replyMap |-> JsonStringify(dto.body_message),
   delayReply |-> dto.delay_reply]

\* lines 677-690 with an update that appends to the stored lists
UpsertMerging(rows, c, dto) ==
  IF AutoReplyOf(rows, c) # {}
    THEN LET old == CHOOSE r \in AutoReplyOf(rows, c) : TRUE
         IN (rows \ AutoReplyOf(rows, c)) \cup
            { [campaignId |-> c,
               traceWords |-> JsonStringify(JsonParse(old.traceWords) \o dto.trace_word),
               replyMap |-> JsonStringify(JsonParse(old.replyMap) \o dto.body_message),
               delayReply |-> dto.delay_reply] }
    ELSE rows \cup {AutoReplyData(c, dto)}

\* lines 677-690: prisma.campaignAutoReply.upsert({ where: { campaignId } })
Upsert(rows, c, dto) ==
  IF AutoReplyOf(rows, c) # {}
    THEN (rows \ AutoReplyOf(rows, c)) \cup {AutoReplyData(c, dto)}
    ELSE rows \cup {AutoReplyData(c, dto)}

\* rule sets submitted to createAutoReply
DtoHalo ==
  [trace_word |-> << <<"h", "a", "l", "o">>, <<"h", "a", "i">> >>,
   delay_reply |-> <<"2">>,
   body_message |-> << [receive |-> <<"h", "a">>, reply |-> "r1"],
                       [receive |-> <<"H", "A", "L", "O">>, reply |-> "r2"],
                       [receive |-> <<"l", "o">>, reply |-> "r3"] >>]
DtoInfo ==
  [trace_word |-> << <<"H", "A", "L">> >>,
   delay_reply |-> <<"1", "-", "2">>,
   body_message |-> << [receive |-> <<"i", "n", "f", "o">>, reply |-> "r4"] >>]
RuleDtos == {DtoHalo, DtoInfo}

\* lines 674-691: createAutoReply upserts the rule set of campaign c; the
\* foreign key to CampaignMessage rejects a campaign that does not exist
CreateAutoReply(c, dto) ==
  /\ IF c \in 1..campaigns
       THEN /\ autoReply' = Upsert(autoReply, c, dto)
            /\ ruleCall' = [called |-> ruleCall.called \cup {c},
                            replaced |-> IF AutoReplyOf(autoReply, c) # {}
                                           THEN ruleCall.replaced \cup {c}
                                           ELSE ruleCall.replaced,
                            last |-> [ruleCall.last EXCEPT ![c] = dto]]
       ELSE UNCHANGED <<autoReply, ruleCall>>
  /\ UNCHANGED <<baseVars, sessionVars, trackerVars, reply, pureVars>>

\* messages of a messages.upsert event
Jid62 == <<"6", "2", "@", "s.whatsapp.net">>
Inbound ==
  { [type |-> "notify", fromMe |-> FALSE, remoteJid |-> Jid62,
     text |-> <<"H", "a", "l", "o">>],
    [type |-> "notify", fromMe |-> FALSE, remoteJid |-> Jid62,
     text |-> <<"h", "e", "l", "l", "o">>],
    [type |-> "notify", fromMe |-> TRUE, remoteJid |-> Jid62,
     text |-> <<"H", "a", "l", "o">>] }

\* lines 224-227 and 698: does handleAutoReply get as far as its lookup
Evaluated(m) == m.type = "notify" /\ ~m.fromMe /\ m.text # <<>>

\* lines 223-231 and 693-700: the socket of session s delivers one message;
\* handleAutoReply runs up to the await of findFirst
MessagesUpsert(s, m) ==
  /\ clients[s] # 0
  /\ reply.pc \in {"idle", "done"}
  /\ reply.n < MaxInbound
  /\ reply' = [IdleReply EXCEPT !.n = reply.n + 1, !.sessionId = s,
                                !.remoteJid = m.remoteJid, !.text = m.text,
                                !.pc = IF Evaluated(m) THEN "lookup" ELSE "done"]
  /\ UNCHANGED <<baseVars, sessionVars, trackerVars, autoReply, ruleCall,
                 pureVars>>

\* newest of the rows in `among` (createdAt desc), Null if there is none
Newest(among) ==
  IF among = {} THEN Null ELSE CHOOSE j \in among : \A k \in among : k <= j

LastLogAny(rows, jid) ==
  Newest({ j \in DOMAIN rows : rows[j].to = jid })

\* lines 700-707 with orderBy: { createdAt: 'asc' }
LastLogOldest(rows, jid) ==
  LET among == { j \in DOMAIN rows : rows[j].to = jid /\ rows[j].campaignId # Null }
  IN IF among = {} THEN Null ELSE CHOOSE j \in among : \A k \in among : j <= k

\* lines 700-707: findFirst({ where: { to, campaignId: { not: null } },
\* orderBy: { createdAt: 'desc' } })
LastLog(rows, jid) ==
  Newest({ j \in DOMAIN rows : rows[j].to = jid /\ rows[j].campaignId # Null })

\* lines 717-720 with every trace word cut to its first letter
IsMatchLoose(text, traceWords) ==
  \E i \in 1..Len(traceWords) :
    /\ traceWords[i] # <<>>
    /\ IncludesStr(ToLowerCase(text), <<Lower(traceWords[i][1])>>)

\* lines 717-720: some trace word occurs in the text, letter case ignored
IsMatch(text, traceWords) ==
  \E i \in 1..Len(traceWords) :
    IncludesStr(ToLowerCase(text), ToLowerCase(traceWords[i]))

\* lines 724-736 with a single pass that takes the first rule the text contains
ReplyMessageFirst(text, replyRules) ==
  LET lowerText == ToLowerCase(text)
      partial == { i \in 1..Len(replyRules) :
                     IncludesStr(lowerText, ToLowerCase(replyRules[i].receive)) }
      first(S) == CHOOSE i \in S : \A k \in S : i <= k
  IN IF partial # {} THEN replyRules[first(partial)].reply ELSE ""

\* lines 724-736: the reply of the first rule that equals the text, else of
\* the first rule the text contains, letter case ignored; "" if there is none
ReplyMessage(text, replyRules) ==
  LET lowerText == ToLowerCase(text)
      exact == { i \in 1..Len(replyRules) :
                   ToLowerCase(replyRules[i].receive) = lowerText }
      partial == { i \in 1..Len(replyRules) :
                     IncludesStr(lowerText, ToLowerCase(replyRules[i].receive)) }
      first(S) == CHOOSE i \in S : \A k \in S : i <= k
  IN IF exact # {} THEN replyRules[first(exact)].reply
     ELSE IF partial # {} THEN replyRules[first(partial)].reply
     ELSE ""

\* lines 709-745: the lookup resolved; no campaign row, no rule set, no trace
\* word or no rule ends the handler, otherwise the reply delay starts
ReplyLookup ==
  /\ reply.pc = "lookup"
  /\ LET lastLog == LastLog(messageLog, reply.remoteJid)
         r == [reply EXCEPT !.lastLog = lastLog,
                            !.lastAny = LastLogAny(messageLog, reply.remoteJid)]
         silent == [r EXCEPT !.pc = "done", !.decision = "silent"]
     IN IF \/ lastLog = Null
           \/ AutoReplyOf(autoReply, messageLog[lastLog].campaignId) = {}
          THEN reply' = silent
          ELSE LET config == CHOOSE row \in AutoReplyOf(
                                 autoReply, messageLog[lastLog].campaignId) : TRUE
                   traceWords == JsonParse(config.traceWords)
                   replyRules == JsonParse(config.replyMap)
                   replyMessage == ReplyMessage(reply.text, replyRules)
               IN IF ~IsMatch(reply.text, traceWords) \/ replyMessage = ""
                    THEN reply' = silent
                    ELSE \E delaySeconds \in GetRandomDelay(config.delayReply) :
                           reply' = [r EXCEPT !.pc = "sleep", !.decision = "reply",
                                              !.message = replyMessage,
                                              !.delay = delaySeconds]
  /\ UNCHANGED <<baseVars, sessionVars, trackerVars, autoReply, ruleCall,
                 pureVars>>

\* lines 700-715: prisma.messageLog.findFirst rejects, or JSON.parse throws
\* on the stored rule set; neither is inside the try of line 747, so
\* handleAutoReply and with it the messages.upsert listener reject with nobody
\* listening
ReplyLookupThrows(fatal) ==
  /\ boot = "up"
  /\ reply.pc = "lookup"
  /\ reply' = [reply EXCEPT !.pc = "done", !.decision = "threw"]
  /\ unhandled' = unhandled \cup {<<"messages.upsert", reply.sessionId>>}
  /\ boot' = IF fatal THEN "down" ELSE boot
  /\ UNCHANGED <<baseVars, conn, start, creds, errorLog, endCall, trackerVars,
                 autoReply, ruleCall, pureVars>>

\* lines 745-752: the delay is over; sendMessage({ sessionId, to: remoteJid,
\* message }) runs up to its first await
ReplyWake ==
  /\ reply.pc = "sleep"
  /\ reply' = [reply EXCEPT !.pc = "send"]
  /\ LET dto == [sessionId |-> reply.sessionId, to |-> reply.remoteJid,
                 file |-> "undefined", mediaType |-> "undefined"]
     IN call' = [call EXCEPT ![ReplySlot] =
                   SendMessageEntry(clients, dto, FALSE, Null, ReplySlot, reply.n)]
  /\ wire' = wire \cup EntryWire(call'[ReplySlot])
  /\ UNCHANGED <<clients, sockGen, devices, messageLog, campaigns, bulkCall,
                 bulk, nextMsgId, sends, sessionVars, trackerVars, autoReply,
                 ruleCall, pureVars>>

\* lines 753-756: sendMessage returned or threw; a throw is logged
ReplyDone ==
  /\ reply.pc = "send"
  /\ call[ReplySlot].pc = "done"
  /\ reply' = [reply EXCEPT !.pc = "done"]
  /\ errorLog' = IF call[ReplySlot].outcome = "threw"
                   THEN errorLog \cup {<<"Gagal kirim auto-reply", reply.sessionId>>}
                   ELSE errorLog
  /\ UNCHANGED <<baseVars, boot, conn, start, creds, unhandled, endCall,
                 trackerVars, autoReply, ruleCall, pureVars>>

\* --------------------------------------------------------------- next state
SendStep(x) ==
  \/ OnWhatsAppResult(x)
  \/ TypingStart(x)
  \/ TypingDone(x)
  \/ CreateLog(x)
  \/ Dispatch(x)
  \/ \E ok \in BOOLEAN : TransmitResult(x, ok)
  \/ UpdateSent(x)
  \/ UpdateFailed(x)

SessionStep(s) ==
  \/ \E u \in Users : StartSession(s, u)
  \/ ConnectionOpen(s)
  \/ \E loggedOut \in BOOLEAN : ConnectionClose(s, loggedOut)

\* the dispatch engine driven by the API caller
NextSend ==
  \/ \E s \in ActiveSessions : SessionStep(s)
  \/ \E s \in ActiveSessions, r \in Requests : SendMessage(s, r)
  \/ SendStep(DirectSlot)

SpecSend == Init /\ [][NextSend]_vars

\* plain text and a rejected attachment, both to the registered number
TrackedRequests ==
  { r \in Requests : r.to = <<"6", "2">> /\ r.mediaType = "undefined" }

\* the dispatch engine with the status tracker listening on the socket
NextAck ==
  \/ \E s \in ActiveSessions, u \in Users : StartSession(s, u)
  \/ \E s \in ActiveSessions, r \in TrackedRequests : SendMessage(s, r)
  \/ SendStep(DirectSlot)
  \/ \E s \in ActiveSessions, upd \in Updates : MessagesUpdate(s, upd)

SpecAck == Init /\ [][NextAck]_vars

\* the campaign scheduler and its background tasks
NextBulk ==
  \/ \E s \in ActiveSessions, u \in Users : StartSession(s, u)
  \/ \E s \in ActiveSessions, loggedOut \in BOOLEAN : ConnectionClose(s, loggedOut)
  \/ \E s \in ActiveSessions, data \in BulkData : SendBulkMessage(s, data)
  \/ SendBulkCreate
  \/ \E c \in CampaignIds : BulkAfterSend(c)
  \/ \E c \in CampaignIds : BulkWake(c)
  \/ \E c \in CampaignIds : SendStep(c)

SpecBulk == Init /\ [][NextBulk]_vars

\* campaigns whose first recipient is the number that writes back
ReplyBulkData == { d \in BulkData : d # <<>> /\ d[1] = TextTo62 }

\* campaigns answered by the auto-reply engine
NextReply ==
  \/ \E s \in ActiveSessions, u \in Users : StartSession(s, u)
  \/ \E s \in ActiveSessions, data \in ReplyBulkData : SendBulkMessage(s, data)
  \/ SendBulkCreate
  \/ \E c \in CampaignIds : BulkAfterSend(c)
  \/ \E c \in CampaignIds : BulkWake(c)
  \/ \E c \in CampaignIds : SendStep(c)
  \/ \E c \in CampaignIds : CreateAutoReply(c, DtoHalo)
  \/ \E s \in ActiveSessions, m \in Inbound : MessagesUpsert(s, m)
  \/ ReplyLookup
  \/ ReplyWake
  \/ SendStep(ReplySlot)
  \/ ReplyDone

SpecReply == Init /\ [][NextReply]_vars

\* a campaign with one recipient, the number that writes back
RulesBulkData == { <<TextTo62>> }

\* the API caller submits a campaign when the earlier ones have finished
QuietBulk ==
  \A c \in CampaignIds : bulk[c].phase \in {"none", "done"}

\* rule sets and inbound messages on top of single-recipient campaigns; the
\* API caller submits a rule set while no campaign is being sent
NextRules ==
  \/ \E s \in ActiveSessions, u \in Users : StartSession(s, u)
  \/ /\ QuietBulk
     /\ \E s \in ActiveSessions, data \in RulesBulkData : SendBulkMessage(s, data)
  \/ SendBulkCreate
  \/ \E c \in CampaignIds : BulkAfterSend(c)
  \/ \E c \in CampaignIds : SendStep(c)
  \/ /\ QuietBulk
     /\ \E c \in CampaignIds : CreateAutoReply(c, DtoHalo)
  \/ \E s \in ActiveSessions, m \in Inbound : MessagesUpsert(s, m)
  \/ ReplyLookup
  \/ ReplyWake
  \/ SendStep(ReplySlot)
  \/ ReplyDone

SpecRules == Init /\ [][NextRules]_vars

\* rule sets submitted and resubmitted for the campaigns that exist
NextUpsert ==
  \/ \E s \in ActiveSessions, u \in Users : StartSession(s, u)
  \/ /\ QuietBulk
     /\ \E s \in ActiveSessions, data \in RulesBulkData : SendBulkMessage(s, data)
  \/ SendBulkCreate
  \/ \E c \in CampaignIds : BulkAfterSend(c)
  \/ \E c \in CampaignIds : SendStep(c)
  \/ \E c \in CampaignIds, dto \in RuleDtos : CreateAutoReply(c, dto)

SpecUpsert == Init /\ [][NextUpsert]_vars

\* the process is running
Running == boot = "up"

\* the acknowledgment and the inbound message the sockets deliver
FaultUpdates == { upd \in Updates : upd.id = 1 /\ upd.fromMe /\ upd.status = 3 }
FaultInbound == { m \in Inbound : Evaluated(m) /\ m.text = <<"H", "a", "l", "o">> }

\* two sessions whose event handlers run into failures of the database
NextFault ==
  \/ Running /\ \E s \in Sessions, u \in Users : StartSession(s, u)
  \/ Running /\ \E s \in Sessions : ConnectionOpen(s)
  \/ Running /\ \E s \in Sessions : ConnectionOpenDbFails(s)
  \/ Running /\ \E s \in Sessions, loggedOut \in BOOLEAN : ConnectionClose(s, loggedOut)
  \/ Running /\ \E s \in Sessions, upd \in FaultUpdates : MessagesUpdate(s, upd)
  \/ \E s \in Sessions, upd \in FaultUpdates, fatal \in BOOLEAN :
       MessagesUpdateThrows(s, upd, fatal)
  \/ Running /\ \E s \in Sessions, m \in FaultInbound : MessagesUpsert(s, m)
  \/ Running /\ ReplyLookup
  \/ \E fatal \in BOOLEAN : ReplyLookupThrows(fatal)

SpecFault == Init /\ [][NextFault]_vars

\* some request or delivered message is still being worked on
Busy ==
  \/ \E x \in Slots : call[x].pc \notin {"idle", "done"}
  \/ bulkCall.pc \notin {"idle", "done"}
  \/ \E c \in CampaignIds : bulk[c].phase \notin {"none", "done"}
  \/ reply.pc \notin {"idle", "done"}
  \/ endCall.pc \notin {"idle", "done"}

\* how far the caller and the sockets have come in the order direct sends,
\* campaigns, rule sets, inbound messages, acknowledgments, endSession
Reached ==
  IF endCall.inst > 0 THEN 6
  ELSE IF ack.n > 0 THEN 5
  ELSE IF reply.n > 0 THEN 4
  ELSE IF autoReply # {} THEN 3
  ELSE IF campaigns > 0 \/ bulkCall.pc # "idle" THEN 2
  ELSE IF sends > 0 THEN 1
  ELSE 0

\* the one request or delivery of kind k may begin
Turn(k) == ~Busy /\ Reached < k

\* every operation of the service against the connection events of the
\* session; one request or delivery of each kind, one after the other, and
\* connection events at any time
NextFrame ==
  \/ \E s \in ActiveSessions : SessionStep(s)
  \/ Turn(1) /\ \E s \in ActiveSessions, r \in TrackedRequests : SendMessage(s, r)
  \/ SendStep(DirectSlot)
  \/ Turn(2) /\ \E s \in ActiveSessions, data \in RulesBulkData : SendBulkMessage(s, data)
  \/ SendBulkCreate
  \/ \E c \in CampaignIds : BulkAfterSend(c)
  \/ \E c \in CampaignIds : SendStep(c)
  \/ Turn(3) /\ \E c \in CampaignIds : CreateAutoReply(c, DtoHalo)
  \/ Turn(4) /\ \E s \in ActiveSessions, m \in FaultInbound : MessagesUpsert(s, m)
  \/ ReplyLookup
  \/ ReplyWake
  \/ SendStep(ReplySlot)
  \/ ReplyDone
  \/ Turn(5) /\ \E s \in ActiveSessions, upd \in FaultUpdates : MessagesUpdate(s, upd)
  \/ Turn(6) /\ \E s \in ActiveSessions : EndSession(s)
  \/ \E ok \in BOOLEAN : LogoutResult(ok)

SpecFrame == Init /\ [][NextFrame]_vars

\* campaigns and auto-replies while the connection of the session is closed,
\* replaced by a reconnect, or logged out at any time; one campaign, then its
\* rule set, then the recipient writing back the word the rules look for
NextLookup ==
  \/ \E s \in ActiveSessions, u \in Users : StartSession(s, u)
  \/ \E s \in ActiveSessions, loggedOut \in BOOLEAN : ConnectionClose(s, loggedOut)
  \/ /\ Turn(2)
     /\ \E s \in ActiveSessions, data \in ReplyBulkData : SendBulkMessage(s, data)
  \/ SendBulkCreate
  \/ \E c \in CampaignIds : BulkAfterSend(c)
  \/ \E c \in CampaignIds : BulkWake(c)
  \/ \E c \in CampaignIds : SendStep(c)
  \/ /\ Turn(3)
     /\ \E c \in CampaignIds : CreateAutoReply(c, DtoHalo)
  \/ /\ Turn(4)
     /\ \E s \in ActiveSessions, m \in FaultInbound : MessagesUpsert(s, m)
  \/ ReplyLookup
  \/ ReplyWake
  \/ SendStep(ReplySlot)
  \/ ReplyDone

SpecLookup == Init /\ [][NextLookup]_vars

\* endSession against the lifecycle of one session, with the caller sending
\* through a session that has no handle
NextLogout ==
  \/ \E s \in ActiveSessions : Lifecycle(s)
  \/ \E s \in ActiveSessions : EndSession(s)
  \/ \E ok \in BOOLEAN : LogoutResult(ok)
  \/ \E s \in ActiveSessions, r \in TrackedRequests :
       NoHandle(clients[s]) /\ SendMessage(s, r)

SpecLogout == Init /\ [][NextLogout]_vars

\* the database answers every upsert a handler is waiting for (line 770), so
\* every suspended connection.update handler is resumed
SpecLogoutFair ==
  SpecLogout /\ \A s \in ActiveSessions : WF_vars(HandlerResume(s))

\* the process stops: nothing that was suspended is ever resumed
ProcessStops ==
  /\ boot = "up"
  /\ boot' = "down"
  /\ UNCHANGED <<baseVars, conn, start, creds, errorLog, unhandled, endCall,
                 trackerVars, replyVars, pureVars>>

\* the dispatch engine in a process that may stop at any moment
NextCrash ==
  \/ Running /\ \E s \in ActiveSessions : SessionStep(s)
  \/ Running /\ \E s \in ActiveSessions, r \in Requests : SendMessage(s, r)
  \/ Running /\ SendStep(DirectSlot)
  \/ ProcessStops

SpecCrash == Init /\ [][NextCrash]_vars

\* the event loop runs every continuation that is ready: timers fire and the
\* promises of the protocol client and of the database settle
BulkTask(c) == BulkAfterSend(c) \/ BulkWake(c) \/ SendStep(c)

SpecBulkFair == SpecBulk /\ \A c \in CampaignIds : WF_vars(BulkTask(c))

\* ------------------------------------------------- helper functions on their own
\* all sequences over S of length at most n
SeqsUpTo(S, n) == UNION { [1..k -> S] : k \in 0..n }

\* inbound texts: textBody is not empty when the rule set is read (line 698)
MatchLetters == {"a", "A", "b"}
MatchTexts == SeqsUpTo(MatchLetters, MaxText) \ {<<>>}

\* the `receive` texts of the rules and the trigger words
MatchWords == { <<"a">>, <<"b">>, <<"A", "b">>, <<"b", "a">> }
MatchTraceWords == SeqsUpTo(MatchWords \cup {<<>>}, 1)

\* rule i of a rule list answers with the i-th of these texts
ReplyNames == <<"r1", "r2", "r3", "r4">>
MatchRules ==
  { [i \in 1..Len(ws) |-> [receive |-> ws[i], reply |-> ReplyNames[i]]] :
      ws \in SeqsUpTo(MatchWords, MaxRules) }

\* an inbound text about to be evaluated against a parsed rule set
InitMatch ==
  /\ InitProcess
  /\ pure \in { [fn |-> "handleAutoReply",
                 input |-> [text |-> t, traceWords |-> tw, replyRules |-> rr],
                 output |-> [isMatch |-> FALSE, replyMessage |-> ""],
                 done |-> FALSE] :
                t \in MatchTexts, tw \in MatchTraceWords, rr \in MatchRules }

\* lines 717-738: the trigger check, then the choice of the reply
Match ==
  /\ pure.fn = "handleAutoReply"
  /\ ~pure.done
  /\ LET isMatch == IsMatch(pure.input.text, pure.input.traceWords)
         replyMessage == IF isMatch
                           THEN ReplyMessage(pure.input.text, pure.input.replyRules)
                           ELSE ""
     IN pure' = [pure EXCEPT !.done = TRUE,
                             !.output = [isMatch |-> isMatch,
                                         replyMessage |-> replyMessage]]
  /\ UNCHANGED <<baseVars, sessionVars, trackerVars, replyVars>>

SpecMatch == InitMatch /\ [][Match]_vars

\* delay ranges as stored in delayReply / passed as delay
RangeChars == {"0", "2", "5", "-", " ", "a"}
DelayRanges == SeqsUpTo(RangeChars, MaxRange)

\* a delay range about to be parsed
InitDelay ==
  /\ InitProcess
  /\ pure \in { [fn |-> "getRandomDelay", input |-> range, output |-> 0,
                 done |-> FALSE] : range \in DelayRanges }

\* lines 239-245: getRandomDelay(range) returns
Delay ==
  /\ pure.fn = "getRandomDelay"
  /\ ~pure.done
  /\ \E seconds \in GetRandomDelay(pure.input) :
       pure' = [pure EXCEPT !.done = TRUE, !.output = seconds]
  /\ UNCHANGED <<baseVars, sessionVars, trackerVars, replyVars>>

SpecDelay == InitDelay /\ [][Delay]_vars

\* -------------------------------------------------------- text variation
\* A message text is a sequence of tokens: single characters, the placeholder
\* {{salam}}, whole words of the slang dictionary and of the greetings, and the
\* zero-width space. The length of a text counts the characters of its tokens.
ZeroWidthSpace == "ZWSP"

Width(token) == IF token = ZeroWidthSpace THEN 1 ELSE Len(token)

RECURSIVE TextLength(_)
TextLength(text) ==
  IF text = <<>> THEN 0 ELSE Width(Head(text)) + TextLength(Tail(text))

\* lines 485-491: the part of the day of an hour
TimeSpecific(hour) ==
  IF hour >= 3 /\ hour < 11 THEN "Pagi"
  ELSE IF hour >= 11 /\ hour < 15 THEN "Siang"
  ELSE IF hour >= 15 /\ hour < 18 THEN "Sore"
  ELSE "Malam"

\* lines 492-497
GreetingVariations(hour) ==
  << <<"Assalamualaikum", ",", " ", "Selamat", " ", TimeSpecific(hour)>>,
     <<"Selamat", " ", TimeSpecific(hour)>>,
     <<"Halo", ",", " ", "Selamat", " ", TimeSpecific(hour)>>,
     <<"Assalamualaikum">> >>

\* /\{\{salam\}\}/gi
IsSalam(token) == token \in {"{{salam}}", "{{Salam}}", "{{SALAM}}"}

RECURSIVE ReplaceSalam(_, _)
ReplaceSalam(text, greeting) ==
  IF text = <<>> THEN <<>>
  ELSE (IF IsSalam(Head(text)) THEN greeting ELSE <<Head(text)>>)
         \o ReplaceSalam(Tail(text), greeting)

\* lines 484-503: the texts getTimeBasedGreeting(text) can return at that hour
GetTimeBasedGreeting(text, hour) ==
  { ReplaceSalam(text, GreetingVariations(hour)[k]) :
      k \in 1..Len(GreetingVariations(hour)) }

\* /\{([^{}]+)\}/: a group opens at i and closes at j
IsGroup(text, i, j) ==
  /\ text[i] = "{"
  /\ j >= i + 2
  /\ text[j] = "}"
  /\ \A k \in (i + 1)..(j - 1) : text[k] \notin {"{", "}"}

\* lines 471-476: the texts processSpintax(text) can return; the groups are
\* found from left to right and each is replaced by one of its alternatives
RECURSIVE ProcessSpintax(_)
ProcessSpintax(text) ==
  LET opens == { i \in 1..Len(text) : \E j \in 1..Len(text) : IsGroup(text, i, j) }
  IN IF opens = {} THEN {text}
     ELSE LET i == CHOOSE o \in opens : \A p \in opens : o <= p
              j == CHOOSE c \in 1..Len(text) : IsGroup(text, i, c)
              choices == Split(SubSeq(text, i + 1, j - 1), "|")
          IN { SubSeq(text, 1, i - 1) \o choices[c] \o rest :
                 c \in 1..Len(choices),
                 rest \in ProcessSpintax(SubSeq(text, j + 1, Len(text))) }

\* line 480 without the + 1
RandomCountFromZero == { k : k \in 0..9 }

\* line 480: Math.floor(Math.random() * 10) + 1
RandomCount == { k + 1 : k \in 0..9 }

\* lines 478-482: the texts addInvisibleUnique(text) can return
AddInvisibleUnique(text) ==
  { text \o [i \in 1..n |-> ZeroWidthSpace] : n \in RandomCount }

\* lines 505-515: entries of the replacement table, in the order of the loop
\* (yang and kak; the other seven entries have the same form)
Replacements ==
  << [word |-> "yang", variations |-> <<"yg", "yang">>],
     [word |-> "kak", variations |-> <<"ka", "kak", "kakak">>] >>

\* word tokens in lower case, as the 'i' flag compares them
LowerWord(token) ==
  CASE token = "Yang" -> "yang"
    [] token = "Kak" -> "kak"
    [] OTHER -> token

\* line 527: match[0] === match[0].toUpperCase()
StartsUpper(token) == token \in {"Yang", "Kak"}

\* line 528: chosen.charAt(0).toUpperCase() + chosen.slice(1)
Capitalize(token) ==
  CASE token = "yg" -> "Yg"
    [] token = "yang" -> "Yang"
    [] token = "ka" -> "Ka"
    [] token = "kak" -> "Kak"
    [] token = "kakak" -> "Kakak"

\* \w with the zero-width space counted as a letter
IsWordTokenInvisible(token) ==
  token \notin {" ", ",", "{", "|", "}"} /\ ~IsSalam(token)

\* \w: tokens made of letters
IsWordToken(token) ==
  token \notin {" ", ",", "{", "|", "}", ZeroWidthSpace} /\ ~IsSalam(token)

\* \bword\b with the flags gi: the token at p is the word, between non-letters
SlangMatch(text, p, word) ==
  /\ LowerWord(text[p]) = word
  /\ p > 1 => ~IsWordToken(text[p - 1])
  /\ p < Len(text) => ~IsWordToken(text[p + 1])

\* lines 521-530: what the token at p can become in the pass of one entry
SlangChoices(text, p, entry) ==
  IF SlangMatch(text, p, entry.word)
    THEN {text[p]} \cup
         { IF StartsUpper(text[p]) THEN Capitalize(entry.variations[v])
                                   ELSE entry.variations[v] :
             v \in 1..Len(entry.variations) }
    ELSE {text[p]}

RECURSIVE SlangPass(_, _, _)
SlangPass(text, p, entry) ==
  IF p > Len(text) THEN {<<>>}
  ELSE { <<token>> \o rest : token \in SlangChoices(text, p, entry),
                            rest \in SlangPass(text, p + 1, entry) }

RECURSIVE SlangFrom(_, _)
SlangFrom(texts, k) ==
  IF k > Len(Replacements) THEN texts
  ELSE SlangFrom(UNION { SlangPass(text, 1, Replacements[k]) : text \in texts },
                 k + 1)

\* lines 504-534: the texts applyIndonesianSlang(text) can return
ApplyIndonesianSlang(text) == SlangFrom({text}, 1)

\* lines 555-562: the texts processor(rawText) can return at that hour
Processor(rawText, hour) ==
  UNION { ApplyIndonesianSlang(t3) :
            t3 \in UNION { AddInvisibleUnique(t2) :
                     t2 \in UNION { ProcessSpintax(t1) :
                              t1 \in GetTimeBasedGreeting(rawText, hour) } } }

\* message templates: up to MaxPieces of these pieces in a row
Pieces ==
  { <<"a">>, <<" ">>, <<"{", "a", "|", "b", "}">>, <<"{">>, <<"{{salam}}">>,
    <<"yang">>, <<"Kak">> }

RECURSIVE Concat(_)
Concat(pieces) ==
  IF pieces = <<>> THEN <<>> ELSE Head(pieces) \o Concat(Tail(pieces))

Templates == { Concat(ps) : ps \in SeqsUpTo(Pieces, MaxPieces) }

\* new Date().getHours() at the time of the render
Hours == {2, 3, 11, 15, 18}

\* the body of a campaign item about to be rendered
InitText ==
  /\ InitProcess
  /\ pure \in { [fn |-> "processor", input |-> [text |-> t, hour |-> h],
                 output |-> <<>>, done |-> FALSE] :
                t \in Templates, h \in Hours }

\* lines 555-563: finalMessageText = processor(item.message)
Render ==
  /\ pure.fn = "processor"
  /\ ~pure.done
  /\ \E finalMessageText \in Processor(pure.input.text, pure.input.hour) :
       pure' = [pure EXCEPT !.done = TRUE, !.output = finalMessageText]
  /\ UNCHANGED <<baseVars, sessionVars, trackerVars, replyVars>>

SpecText == InitText /\ [][Render]_vars

\* the body of a campaign item about to be rendered for two recipients
InitTwice ==
  /\ InitProcess
  /\ pure \in { [fn |-> "processor twice", input |-> [text |-> t, hour |-> h],
                 output |-> <<>>, done |-> FALSE] :
                t \in Templates, h \in Hours }

\* lines 555-563: the body is rendered for one recipient
RenderFirst ==
  /\ pure.fn = "processor twice"
  /\ pure.output = <<>>
  /\ \E finalMessageText \in Processor(pure.input.text, pure.input.hour) :
       pure' = [pure EXCEPT !.output = <<finalMessageText>>]
  /\ UNCHANGED <<baseVars, sessionVars, trackerVars, replyVars>>

\* lines 555-563: the same body is rendered for another recipient
RenderSecond ==
  /\ pure.fn = "processor twice"
  /\ Len(pure.output) = 1
  /\ \E finalMessageText \in Processor(pure.input.text, pure.input.hour) :
       pure' = [pure EXCEPT !.done = TRUE,
                            !.output = Append(pure.output, finalMessageText)]
  /\ UNCHANGED <<baseVars, sessionVars, trackerVars, replyVars>>

NextTwice == RenderFirst \/ RenderSecond

SpecTwice == InitTwice /\ [][NextTwice]_vars

\* the body of a campaign item about to be rendered stage by stage
InitStages ==
  /\ InitProcess
  /\ pure \in { [fn |-> "stages", input |-> [text |-> t, hour |-> h],
                 output |-> [txt |-> t, applied |-> <<>>], done |-> FALSE] :
                t \in Templates, h \in Hours }

\* one assignment to txt in the body of processor
Stage(name, before, txts) ==
  /\ pure.fn = "stages"
  /\ pure.output.applied = before
  /\ \E txt \in txts :
       pure' = [pure EXCEPT !.output = [txt |-> txt, applied |-> Append(before, name)]]
  /\ UNCHANGED <<baseVars, sessionVars, trackerVars, replyVars>>

\* line 557: let txt = this.getTimeBasedGreeting(rawText)
StageGreeting ==
  Stage("greeting", <<>>, GetTimeBasedGreeting(pure.input.text, pure.input.hour))

\* line 558: txt = this.processSpintax(txt)
StageSpintax ==
  Stage("spintax", <<"greeting">>, ProcessSpintax(pure.output.txt))

\* line 559: txt = this.addInvisibleUnique(txt)
StageInvisibleUnique ==
  Stage("suffix", <<"greeting", "spintax">>, AddInvisibleUnique(pure.output.txt))

\* line 560: txt = this.applyIndonesianSlang(txt)
StageSlang ==
  Stage("slang", <<"greeting", "spintax", "suffix">>,
        ApplyIndonesianSlang(pure.output.txt))

\* line 561: return txt
StageReturn ==
  /\ pure.fn = "stages"
  /\ Len(pure.output.applied) = 4
  /\ ~pure.done
  /\ pure' = [pure EXCEPT !.done = TRUE]
  /\ UNCHANGED <<baseVars, sessionVars, trackerVars, replyVars>>

NextStages ==
  \/ StageGreeting
  \/ StageSpintax
  \/ StageInvisibleUnique
  \/ StageSlang
  \/ StageReturn

SpecStages == InitStages /\ [][NextStages]_vars

\* ------------------------------------------------------------- observations
\* rows created by invocation inst of slot x
RowsOf(x, inst) ==
  { j \in DOMAIN messageLog : messageLog[j].slot = x /\ messageLog[j].inst = inst }

\* protocol calls of kind op issued by invocation inst of slot x
WireOf(x, inst, op) ==
  { w \in wire : w.slot = x /\ w.inst = inst /\ w.op = op }

\* rows tagged with campaign c
RowsOfCampaign(c) ==
  { j \in DOMAIN messageLog : messageLog[j].campaignId = c }

\* the invocation has a handle and its recipient is a canonical address the
\* network does not know
Unregistered(c) ==
  /\ c.pc # "idle"
  /\ c.sock # 0
  /\ EndsWith(c.formattedTo, Suffix)
  /\ c.formattedTo \notin Registered

\* ------------------------------------------------------------------- claims
\* C1: a send to a canonical recipient the protocol client reports as
\* unregistered fails with RecipientNotRegistered, issues no transmit call and
\* creates no MessageLog row.
C1_UnregisteredLeavesNoTrace ==
  \A x \in Slots :
    Unregistered(call[x]) =>
      /\ RowsOf(x, call[x].inst) = {}
      /\ WireOf(x, call[x].inst, "send") = {}
      /\ call[x].logId = Null
      /\ call[x].pc \in {"onWhatsApp", "done"}
      /\ call[x].pc = "done" =>
           /\ call[x].outcome = "threw"
           /\ call[x].error = "RecipientNotRegistered"

\* a send to an unknown number was rejected while earlier rows exist
C1_Witness ==
  /\ Unregistered(call[DirectSlot])
  /\ call[DirectSlot].pc = "done"
  /\ messageLog # <<>>

\* C2: a send that passed validation and whose transmit call threw created
\* exactly one MessageLog row, wrote FAILED to it, and returned the
\* structured failure instead of throwing.
C2_TransmitFailureIsRecorded ==
  \A x \in Slots :
    call[x].transmit = "threw" =>
      /\ Cardinality(RowsOf(x, call[x].inst)) = 1
      /\ RowsOf(x, call[x].inst) = {call[x].logId}
      /\ call[x].pc \in {"catch", "done"}
      /\ call[x].pc = "done" =>
           /\ call[x].outcome = "failed"
           /\ messageLog[call[x].logId].status = "FAILED"

\* a send returned the structured failure after its transmit call threw
C2_Witness ==
  /\ call[DirectSlot].transmit = "threw"
  /\ call[DirectSlot].pc = "done"

\* C3: whenever send issues a transmit call, the MessageLog row of that same
\* send, with the same recipient address, already exists with status PENDING.
C3_PendingRowBeforeTransmit ==
  [][\A w \in wire' \ wire :
       w.op = "send" =>
         \E j \in DOMAIN messageLog :
           /\ messageLog[j].slot = w.slot
           /\ messageLog[j].inst = w.inst
           /\ messageLog[j].to = w.to
           /\ messageLog[j].status = "PENDING"]_vars

\* a transmit call has been issued for a normalised recipient
C3_Witness ==
  \E w \in wire :
    /\ w.op = "send"
    /\ call[w.slot].inst = w.inst
    /\ call[w.slot].pc = "transmit"
    /\ call[w.slot].to # w.to
    /\ messageLog[call[w.slot].logId].to = w.to
    /\ messageLog[call[w.slot].logId].status = "PENDING"

\* C4: the step that ends a successful send writes SENT and the
\* protocol-assigned message id to that send's row; every SENT row has a
\* message id, and no two rows share a message id.
C4_SentCarriesUniqueId ==
  /\ [](\A j \in DOMAIN messageLog :
          /\ messageLog[j].status = "SENT" => messageLog[j].waMessageId # Null
          /\ \A k \in DOMAIN messageLog :
               (j # k /\ messageLog[j].waMessageId # Null) =>
                 messageLog[j].waMessageId # messageLog[k].waMessageId)
  /\ [](\A x \in Slots :
          call[x].transmit = "ok" => call[x].pc \in {"updateSent", "done"})
  /\ [][\A x \in Slots :
          (call[x].pc = "updateSent" /\ call'[x].pc = "done") =>
            /\ call'[x].outcome = "success"
            /\ messageLog'[call[x].logId].status = "SENT"
            /\ messageLog'[call[x].logId].waMessageId = call[x].waMessageId
            /\ call[x].waMessageId # Null]_vars

\* two sends succeeded and their rows carry different message ids
C4_Witness ==
  \E j, k \in DOMAIN messageLog :
    /\ j # k
    /\ messageLog[j].status = "SENT"
    /\ messageLog[k].status = "SENT"
    /\ messageLog[j].waMessageId # Null
    /\ messageLog[k].waMessageId # Null

\* C5: a send entered while the registry holds no handle for its session
\* throws SessionNotFound at once, creating no MessageLog row and issuing no
\* protocol call; a sendBulk entered in that situation throws SessionNotFound
\* and creates no Campaign row, no MessageLog row and no background task.
C5_NoHandleNoEffect ==
  /\ [](\A x \in Slots :
          call[x].error = "SessionNotFound" =>
            /\ RowsOf(x, call[x].inst) = {}
            /\ \A w \in wire : ~(w.slot = x /\ w.inst = call[x].inst))
  /\ [][/\ \A x \in Slots :
            (call'[x].inst # call[x].inst /\ clients[call'[x].sessionId] = 0) =>
              /\ call'[x].pc = "done"
              /\ call'[x].outcome = "threw"
              /\ call'[x].error = "SessionNotFound"
              /\ messageLog' = messageLog
              /\ wire' = wire
        /\ (/\ bulkCall.pc \in {"idle", "done"}
            /\ bulkCall' # bulkCall
            /\ clients[bulkCall'.sessionId] = 0) =>
              /\ bulkCall'.pc = "done"
              /\ bulkCall'.status = "SessionNotFound"
              /\ UNCHANGED <<campaigns, messageLog, bulk, call, wire>>]_vars

\* both a send and a sendBulk were refused for lack of a handle
C5_Witness ==
  /\ bulkCall.status = "SessionNotFound"
  /\ \E x \in Slots : call[x].error = "SessionNotFound"

\* the invocation has a handle and its recipient passes the registration check
Accepted(c) ==
  /\ c.pc # "idle"
  /\ c.sock # 0
  /\ EndsWith(c.formattedTo, Suffix) => c.formattedTo \in Registered

\* C6: a send with an attachment source but no attachment kind is rejected
\* with UnsupportedMediaType by throwing to the caller, before any MessageLog
\* row is created.
C6_MissingKindRejectedBeforeLog ==
  \A x \in Slots :
    (/\ Accepted(call[x])
     /\ call[x].mediaFile \/ call[x].file # "undefined"
     /\ call[x].mediaType = "undefined") =>
      /\ RowsOf(x, call[x].inst) = {}
      /\ call[x].pc = "done" =>
           /\ call[x].outcome = "threw"
           /\ call[x].error = "UnsupportedMediaType"

\* C7: a send that names an attachment kind but has neither upload bytes nor
\* a string source fails with NoMediaSource and issues no transmit call.
C7_NoSourceNeverTransmitted ==
  \A x \in Slots :
    (/\ Accepted(call[x])
     /\ call[x].mediaType # "undefined"
     /\ ~call[x].mediaFile
     /\ call[x].file = "undefined") =>
      /\ WireOf(x, call[x].inst, "send") = {}
      /\ call[x].pc = "done" => call[x].error = "NoMediaSource"

\* C8: a sendBulk entered on a session with a handle goes on to create the
\* campaign; the step that creates the Campaign row adds exactly one row and
\* returns {campaignId, PROCESSING, total = number of recipients} while no
\* MessageLog row of the campaign exists, no transmit call of it has been
\* issued and no pacing sleep has been taken; no other step adds a campaign.
C8_BulkReturnsAtOnce ==
  /\ [][(/\ bulkCall.pc \in {"idle", "done"}
         /\ bulkCall' # bulkCall
         /\ clients[bulkCall'.sessionId] # 0) =>
          /\ bulkCall'.pc = "create"
          /\ UNCHANGED <<campaigns, messageLog, bulk>>]_vars
  /\ [][campaigns' # campaigns =>
          /\ bulkCall.pc = "create"
          /\ bulkCall'.pc = "done"
          /\ campaigns' = campaigns + 1]_vars
  /\ [][(bulkCall.pc = "create" /\ bulkCall'.pc = "done") =>
          /\ campaigns' = campaigns + 1
          /\ bulkCall'.status = "PROCESSING"
          /\ bulkCall'.campaignId = campaigns'
          /\ bulkCall'.total = Len(bulkCall.data)
          /\ bulk'[campaigns'].data = bulkCall.data
          /\ bulk'[campaigns'].sleeps = 0
          /\ messageLog' = messageLog
          /\ \A j \in DOMAIN messageLog' : messageLog'[j].campaignId # campaigns'
          /\ \A w \in wire' : w.slot = campaigns' => w.op # "send"]_vars

\* sendBulk has returned for two recipients while the task is still at its
\* first send and no row of the campaign exists
C8_Witness ==
  /\ bulkCall.pc = "done"
  /\ bulkCall.status = "PROCESSING"
  /\ bulkCall.total = 2
  /\ bulk[bulkCall.campaignId].phase = "send"
  /\ bulk[bulkCall.campaignId].index = 1
  /\ RowsOfCampaign(bulkCall.campaignId) = {}

\* the item's recipient passes the registration check
ItemAccepted(item) ==
  EndsWith(FormatTo(item.to), Suffix) => FormatTo(item.to) \in Registered

\* every send of the task found a handle in the registry
HandleStayedLive(b) ==
  \A i \in DOMAIN b.logged : b.logged[i] # "SessionNotFound"

\* C9: while item i is being sent the task has slept i-1 times (none before
\* the first item, one before each later item), so n-1 times in all; once
\* the task of a campaign whose recipients are all accepted and whose session
\* kept its handle is finished, exactly n rows carry the campaign id; and a
\* row carrying the campaign id was created by a send of that campaign.
C9_PacingAndRows ==
  \A c \in CampaignIds :
    LET b == bulk[c]
        n == Len(b.data)
    IN /\ b.phase = "send" => b.sleeps = b.index - 1
       /\ b.phase = "sleep" => b.sleeps = b.index
       /\ b.phase = "done" => b.sleeps = IF n = 0 THEN 0 ELSE n - 1
       /\ (/\ b.phase = "done"
           /\ \A i \in 1..n : ItemAccepted(b.data[i])
           /\ HandleStayedLive(b)) =>
            Cardinality(RowsOfCampaign(c)) = n
       /\ \A j \in RowsOfCampaign(c) : messageLog[j].slot = c

\* a campaign of two accepted recipients is finished: one sleep, two rows
C9_Witness ==
  \E c \in CampaignIds :
    /\ bulk[c].phase = "done"
    /\ Len(bulk[c].data) = 2
    /\ \A i \in 1..2 : ItemAccepted(bulk[c].data[i])
    /\ HandleStayedLive(bulk[c])
    /\ bulk[c].sleeps = 1
    /\ Cardinality(RowsOfCampaign(c)) = 2

\* C10: the task calls sendMessage for items 1, 2, ... in that order, once
\* each, whatever the earlier calls returned or threw; it is finished only
\* when all n items have been attempted; and every started task finishes
\* (tasks are started finitely often, so from some point on none is running).
C10_EveryRecipientAttempted ==
  /\ [](\A c \in CampaignIds :
          LET b == bulk[c]
          IN /\ b.attempted = [i \in 1..b.index |-> i]
             /\ b.index <= Len(b.data)
             /\ b.phase = "send" => Len(b.logged) = b.index - 1
             /\ b.phase = "sleep" =>
                  Len(b.logged) = b.index /\ b.index < Len(b.data)
             /\ b.phase = "done" =>
                  Len(b.logged) = Len(b.data) /\ b.index = Len(b.data))
  /\ <>[](\A c \in CampaignIds : bulk[c].phase \notin {"send", "sleep"})

\* a task finished both items although the first was refused
C10_Witness ==
  \E c \in CampaignIds :
    /\ bulk[c].phase = "done"
    /\ bulk[c].attempted = <<1, 2>>
    /\ bulk[c].logged[1] \in {"RecipientNotRegistered", "SessionNotFound"}

\* C11: startSession writes the INITIALIZING row before it opens the
\* connection, returns WAITING_QR with the QR payload or CONNECTED with a null
\* QR according to the first QR or open event handled for the session while
\* it waits, and does not time out once such an event has been handled, also
\* when the event comes from the socket of a reconnect.
C11_EventWithinBoundIsReturned ==
  \A s \in Sessions :
    /\ conn[s].origin = "start" => devices[s] # NoDevice
    /\ start[s].pc = "returned" =>
         \/ /\ start[s].seen = "qr"
            /\ start[s].status = "WAITING_QR"
            /\ start[s].qr # Null
         \/ /\ start[s].seen = "open"
            /\ start[s].status = "CONNECTED"
            /\ start[s].qr = Null
    /\ start[s].pc = "failed" => start[s].seen = "none"

\* C12: a startSession that failed did so with QrTimeout, its sessionId has
\* no entry in the handle registry from then on, and its row still exists.
C12_TimeoutLeavesNoHandle ==
  \A s \in Sessions :
    start[s].pc = "failed" =>
      /\ start[s].error = "QrTimeout"
      /\ clients[s] = 0
      /\ devices[s] # NoDevice

C14_CloseLogoutOrReconnect ==
  [][\A s \in Sessions :
       /\ ( /\ Len(conn'[s].handlers) > Len(conn[s].handlers)
            /\ conn'[s].handlers[Len(conn'[s].handlers)].kind = "close" ) =>
            /\ devices'[s].status = "DISCONNECTED"
            /\ clients'[s] = clients[s]
            /\ creds'[s] = creds[s]
            /\ conn'[s].reconnects = conn[s].reconnects
       /\ ( /\ conn[s].handlers # <<>>
            /\ Head(conn[s].handlers).kind = "close"
            /\ conn'[s].handlers = Tail(conn[s].handlers) ) =>
            /\ devices[s].status = "DISCONNECTED"
            /\ IF Head(conn[s].handlers).loggedOut
                 THEN /\ clients'[s] = 0
                      /\ ~creds'[s]
                      /\ conn'[s].reconnects = conn[s].reconnects
                      /\ conn'[s].state = "closed"
                 ELSE /\ clients'[s] = clients[s]
                      /\ creds[s] /\ creds'[s]
                      /\ conn'[s].reconnects = conn[s].reconnects + 1
                      /\ conn'[s].state = "setup"
                      /\ conn'[s].origin = "reconnect"]_vars

\* one session was logged out and purged, another one is reconnecting
C14_Witness ==
  \E s, r \in Sessions :
    /\ conn[s].state = "closed"
    /\ conn[s].handlers = <<>>
    /\ clients[s] = 0
    /\ ~creds[s]
    /\ devices[s].status = "DISCONNECTED"
    /\ conn[r].state = "setup"
    /\ conn[r].origin = "reconnect"
    /\ creds[r]

\* C15: restoreSessions calls initializeClient for exactly the rows whose
\* status is CONNECTED; when the reopening of one of them fails the failure
\* is written to the error log and the process stays up.
C15_RestoreFailureIsLogged ==
  /\ [][boot = "init" /\ boot' = "up" =>
          \A s \in Sessions :
            conn'[s].state = "setup" <=> devices[s].status = "CONNECTED"]_vars
  /\ [](\A s \in Sessions :
          (<<"initializeClient", s>> \in unhandled /\ conn[s].origin = "restore") =>
            /\ <<"Gagal restore", s>> \in errorLog
            /\ boot # "down")

\* C16: endSession without a registry entry throws `Sesi tidak aktif` and
\* issues no logout; with an entry it issues exactly one sock.logout() on that
\* socket, and a rejection of it is thrown as `Gagal logout: ...`, not raw.
C16_EndSessionLogout ==
  LET logouts == { w \in wire : w.op = "logout" /\ w.inst = endCall.inst }
  IN endCall.pc # "idle" =>
       IF NoHandle(endCall.sock)
         THEN /\ endCall.pc = "done"
              /\ endCall.outcome = "threw"
              /\ endCall.error = <<"Sesi tidak aktif">>
              /\ logouts = {}
         ELSE /\ Cardinality(logouts) = 1
              /\ \A w \in logouts : /\ w.sessionId = endCall.sessionId
                                    /\ w.sock = endCall.sock
              /\ endCall.outcome = "threw" =>
                   /\ Len(endCall.error) = 2
                   /\ endCall.error[1] = "Gagal logout: "

\* a logout was rejected by the protocol client after an earlier endSession
C16_Witness ==
  /\ endCall.pc = "done"
  /\ endCall.outcome = "threw"
  /\ ~NoHandle(endCall.sock)
  /\ endCall.inst > 1

\* C17: one self-originated item of messages.update with id m and status k
\* writes the status mapped from k (PENDING for a k outside the mapping) to
\* every row whose waMessageId is m, changes nothing else in those rows, and
\* leaves every other row alone; an item that is not self-originated changes
\* nothing.
C17_AckSetsMappedStatus ==
  [][ack'.n # ack.n =>
       /\ DOMAIN messageLog' = DOMAIN messageLog
       /\ \A j \in DOMAIN messageLog :
            messageLog'[j] =
              IF ack'.upd.fromMe /\ messageLog[j].waMessageId = ack'.upd.id
                THEN [messageLog[j] EXCEPT !.status = StatusString(ack'.upd.status)]
                ELSE messageLog[j]]_vars

\* C18: handling the same item twice in succession leaves the table after the
\* second time as it was after the first.
C18_AckIdempotent ==
  /\ \A upd \in Updates :
       TrackerApply(TrackerApply(messageLog, upd), upd) = TrackerApply(messageLog, upd)
  /\ ( ack.twice /\ messageLog = TrackerApply(ack.before, ack.upd) ) =>
       messageLog = ack.before

\* a DELIVERED acknowledgment of a sent message was handled twice in a row
C18_Witness ==
  /\ ack.twice
  /\ Tracked(ack.upd)
  /\ messageLog = ack.before
  /\ \E j \in DOMAIN messageLog :
       /\ messageLog[j].waMessageId = ack.upd.id
       /\ messageLog[j].status = "DELIVERED"

\* C19: an acknowledgment the tracker applies overwrites the status of the
\* rows of its message with the status mapped from its kind, whatever their
\* status was; an older acknowledgment handled after a newer one wins.
C19_NoOrderingGuard ==
  [][ack'.n # ack.n /\ Tracked(ack'.upd) =>
       \A j \in DOMAIN messageLog :
         messageLog[j].waMessageId = ack'.upd.id =>
           messageLog'[j].status = StatusString(ack'.upd.status)]_vars

\* a row that was READ is DELIVERED after a late DELIVERY_ACK
C19_Witness ==
  /\ ack.n > 0
  /\ Tracked(ack.upd)
  /\ StatusString(ack.upd.status) = "DELIVERED"
  /\ messageLog = TrackerApply(ack.before, ack.upd)
  /\ \E j \in DOMAIN messageLog :
       /\ messageLog[j].waMessageId = ack.upd.id
       /\ ack.before[j].status = "READ"
       /\ messageLog[j].status = "DELIVERED"

\* C20: handleAutoReply decides to reply only if the newest MessageLog row
\* addressed to the sender, campaign-tagged or not, carries a campaignId
\* whose campaign has a rule set.
C20_ReplyOnlyToNewestCampaignRow ==
  reply.decision = "reply" =>
    /\ reply.lastAny # Null
    /\ messageLog[reply.lastAny].campaignId # Null
    /\ AutoReplyOf(autoReply, messageLog[reply.lastAny].campaignId) # {}

\* the campaign-tagged rows addressed to jid
TaggedTo(jid) ==
  { j \in DOMAIN messageLog :
      messageLog[j].to = jid /\ messageLog[j].campaignId # Null }

\* the replies of the rules stored for campaign c
RepliesOf(c) ==
  UNION { { JsonParse(row.replyMap)[i].reply : i \in 1..Len(JsonParse(row.replyMap)) } :
            row \in AutoReplyOf(autoReply, c) }

\* C21: when handleAutoReply has looked up the sender, it consults the rule
\* set of the campaign of the newest campaign-tagged row addressed to the
\* sender and no other: without such a row, or without a rule set for that
\* campaign, it ends silently, and a reply it decides on comes from that rule
\* set; a handler that ended silently sends nothing and creates no row.
C21_RulesOfNewestCampaignOnly ==
  /\ [][reply.pc = "lookup" /\ reply'.pc # "lookup" =>
          LET tagged == TaggedTo(reply.remoteJid)
              newest == CHOOSE j \in tagged : \A k \in tagged : k <= j
          IN IF tagged = {} \/ AutoReplyOf(autoReply, messageLog[newest].campaignId) = {}
               THEN reply'.pc = "done" /\ reply'.decision = "silent"
               ELSE reply'.decision = "reply" =>
                      reply'.message \in RepliesOf(messageLog[newest].campaignId)]_vars
  /\ [](reply.decision = "silent" =>
          /\ RowsOf(ReplySlot, reply.n) = {}
          /\ \A w \in wire : ~(w.slot = ReplySlot /\ w.inst = reply.n))

\* the sender's newest campaign has no rule set, an older campaign to the
\* same sender has one that matches the text, and the handler stayed silent
C21_Witness ==
  /\ reply.decision = "silent"
  /\ reply.lastLog # Null
  /\ AutoReplyOf(autoReply, messageLog[reply.lastLog].campaignId) = {}
  /\ \E j \in TaggedTo(reply.remoteJid) :
       /\ j < reply.lastLog
       /\ \E row \in AutoReplyOf(autoReply, messageLog[j].campaignId) :
            /\ IsMatch(reply.text, JsonParse(row.traceWords))
            /\ ReplyMessage(reply.text, JsonParse(row.replyMap)) # ""

\* a and b are the same letter up to case
SameLetter(a, b) == Lower(a) = Lower(b)

\* w is a substring of t when letter case is ignored
OccursIgnoringCase(w, t) ==
  \E k \in 0..(Len(t) - Len(w)) :
    \A i \in 1..Len(w) : SameLetter(t[k + i], w[i])

\* the trigger words handleAutoReply would read for a message from jid
TriggerWordsFor(jid) ==
  LET tagged == TaggedTo(jid)
      newest == CHOOSE j \in tagged : \A k \in tagged : k <= j
  IN IF tagged = {} THEN {}
     ELSE UNION { { JsonParse(row.traceWords)[i] :
                      i \in 1..Len(JsonParse(row.traceWords)) } :
                  row \in AutoReplyOf(autoReply, messageLog[newest].campaignId) }

\* C22: when no trigger word of the consulted rule set is a case-insensitive
\* substring of the inbound text, handleAutoReply ends at once: it does not
\* sleep, sends nothing and creates no MessageLog row.
C22_NoTriggerNoAction ==
  /\ [][(/\ reply.pc = "lookup"
         /\ reply'.pc # "lookup"
         /\ \A w \in TriggerWordsFor(reply.remoteJid) :
              ~OccursIgnoringCase(w, reply.text)) =>
          /\ reply'.pc = "done"
          /\ reply'.decision = "silent"
          /\ messageLog' = messageLog
          /\ wire' = wire]_vars
  /\ [](reply.decision = "silent" =>
          /\ reply.pc = "done"
          /\ RowsOf(ReplySlot, reply.n) = {}
          /\ WireOf(ReplySlot, reply.n, "send") = {})

\* 'hello' arrived for a rule set whose trigger words are 'halo' and 'hai'
\* and whose rule 'lo' would have matched; nothing was done
C22_Witness ==
  /\ reply.decision = "silent"
  /\ reply.text = <<"h", "e", "l", "l", "o">>
  /\ TriggerWordsFor(reply.remoteJid) = {<<"h", "a", "l", "o">>, <<"h", "a", "i">>}
  /\ \E row \in AutoReplyOf(autoReply, messageLog[reply.lastLog].campaignId) :
       ReplyMessage(reply.text, JsonParse(row.replyMap)) = "r3"

\* a and b are the same text when letter case is ignored
EqualIgnoringCase(a, b) ==
  Len(a) = Len(b) /\ \A i \in 1..Len(a) : SameLetter(a[i], b[i])

\* C23: for a text that passed the trigger check, the reply chosen is the
\* reply of a rule whose `receive` equals the whole text, letter case
\* ignored, if there is such a rule; otherwise the reply of the first rule,
\* in configured order, whose `receive` is a case-insensitive substring of
\* the text; with no rule of either kind there is no reply.
C23_ExactThenFirstSubstring ==
  (pure.fn = "handleAutoReply" /\ pure.done /\ pure.output.isMatch) =>
    LET text == pure.input.text
        rules == pure.input.replyRules
        exact == { i \in 1..Len(rules) : EqualIgnoringCase(rules[i].receive, text) }
        partial == { i \in 1..Len(rules) : OccursIgnoringCase(rules[i].receive, text) }
    IN IF exact # {}
         THEN \E i \in exact : pure.output.replyMessage = rules[i].reply
         ELSE IF partial # {}
           THEN \E i \in partial :
                  /\ \A k \in partial : i <= k
                  /\ pure.output.replyMessage = rules[i].reply
           ELSE pure.output.replyMessage = ""

\* a rule that equals the text wins over an earlier rule the text contains
C23_Witness ==
  /\ pure.fn = "handleAutoReply"
  /\ pure.done
  /\ pure.output.isMatch
  /\ LET text == pure.input.text
         rules == pure.input.replyRules
     IN \E i, j \in 1..Len(rules) :
          /\ i < j
          /\ OccursIgnoringCase(rules[i].receive, text)
          /\ ~EqualIgnoringCase(rules[i].receive, text)
          /\ EqualIgnoringCase(rules[j].receive, text)
          /\ rules[j].receive # text
          /\ pure.output.replyMessage = rules[j].reply

\* C24: after any sequence of createAutoReply calls every campaign has at
\* most one rule-set row; the row of a campaign holds exactly the trigger
\* words, rules and delay range of the latest call for that campaign, with
\* nothing left of what an earlier call stored, and a campaign no call named
\* has no row.
C24_UpsertReplaces ==
  \A c \in CampaignIds :
    /\ Cardinality(AutoReplyOf(autoReply, c)) <= 1
    /\ c \notin ruleCall.called => AutoReplyOf(autoReply, c) = {}
    /\ c \in ruleCall.called =>
         /\ AutoReplyOf(autoReply, c) # {}
         /\ \A row \in AutoReplyOf(autoReply, c) :
              /\ JsonParse(row.traceWords) = ruleCall.last[c].trace_word
              /\ JsonParse(row.replyMap) = ruleCall.last[c].body_message
              /\ row.delayReply = ruleCall.last[c].delay_reply

\* the rule set of one campaign was replaced while another campaign kept its own
C24_Witness ==
  \E c, d \in CampaignIds :
    /\ c # d
    /\ c \in ruleCall.replaced
    /\ ruleCall.last[c] = DtoInfo
    /\ d \in ruleCall.called
    /\ ruleCall.last[d] = DtoHalo
    /\ \E row \in AutoReplyOf(autoReply, c) :
         JsonParse(row.replyMap) = DtoInfo.body_message
    /\ \E row \in AutoReplyOf(autoReply, d) :
         JsonParse(row.replyMap) = DtoHalo.body_message

\* the tokens of a delay range, blanks around them dropped
RangeTokens(range) ==
  [i \in 1..Len(Split(range, "-")) |-> Trim(Split(range, "-")[i])]

\* the token reads as a non-negative integer
Parsable(token) == ~ParseInt(token).nan /\ ParseInt(token).value >= 0

\* C25: for a delay range "a-b" whose two tokens read as non-negative
\* integers, getRandomDelay returns an integer between the smaller and the
\* larger of them, bounds included and in either order; if the second token
\* does not read as an integer the result is the value of the first; a
\* single token that does not read as an integer gives 10.
C25_DelayRange ==
  (pure.fn = "getRandomDelay" /\ pure.done) =>
    LET tokens == RangeTokens(pure.input)
        a == ParseInt(tokens[1]).value
        b == ParseInt(tokens[2]).value
    IN /\ (Len(tokens) = 2 /\ Parsable(tokens[1]) /\ Parsable(tokens[2])) =>
            /\ pure.output \in Int
            /\ (IF a <= b THEN a ELSE b) <= pure.output
            /\ pure.output <= (IF a <= b THEN b ELSE a)
       /\ (Len(tokens) = 2 /\ Parsable(tokens[1]) /\ ~Parsable(tokens[2])) =>
            pure.output = a
       /\ (Len(tokens) = 1 /\ ~Parsable(tokens[1])) => pure.output = 10

\* "5-2" gave 3: the bounds were swapped and a value inside the range drawn
C25_Witness ==
  /\ pure.fn = "getRandomDelay"
  /\ pure.done
  /\ pure.input = <<"5", "-", "2">>
  /\ pure.output = 3

\* the template has a spintax group
HasGroup(text) == \E i, j \in 1..Len(text) : IsGroup(text, i, j)

\* the template has a word of the slang dictionary
HasSlangWord(text) ==
  \E p \in 1..Len(text), k \in 1..Len(Replacements) :
    LowerWord(text[p]) = Replacements[k].word

\* C26 as stated: whatever the template and the random choices, the rendered
\* text is at least as long as the template.
C26_OutputAtLeastInput ==
  (pure.fn = "processor" /\ pure.done) =>
    TextLength(pure.output) >= TextLength(pure.input.text)

\* C26 amended: a template without a spintax group and without a dictionary
\* word renders to a text that is longer than the template by at least one
\* character, whatever the random choices.
C26_PlainTemplateGrows ==
  (/\ pure.fn = "processor"
   /\ pure.done
   /\ ~HasGroup(pure.input.text)
   /\ ~HasSlangWord(pure.input.text)) =>
    TextLength(pure.output) >= TextLength(pure.input.text) + 1

\* a template with the greeting placeholder and a letter was rendered
C26_Witness ==
  /\ pure.fn = "processor"
  /\ pure.done
  /\ pure.input.text = <<"{{salam}}", "a">>
  /\ TextLength(pure.output) = TextLength(pure.input.text) + 7

\* the text without its zero-width characters
Visible(text) == SelectSeq(text, LAMBDA token : token # ZeroWidthSpace)

\* the number of zero-width characters of the text
Invisible(text) == Len(text) - Len(Visible(text))

\* C27: every render carries between 1 and 10 zero-width characters, and two
\* renders of the same template that show the same visible text are
\* different texts.
C27_RendersAreDistinct ==
  (pure.fn = "processor twice" /\ pure.done) =>
    /\ \A i \in 1..2 : Invisible(pure.output[i]) \in 1..10
    /\ Visible(pure.output[1]) = Visible(pure.output[2]) =>
         pure.output[1] # pure.output[2]

\* the listeners a socket registers (lines 142, 188 and 223)
HandlerKinds == {"connection.update", "messages.update", "messages.upsert"}

\* C28: an exception raised inside an event handler of a session never
\* escapes the handler: no rejection of a handler is left unhandled, and the
\* process, with the registry entries and the handlers of the other sessions,
\* stays up.
C28_HandlerExceptionsContained ==
  /\ \A f \in unhandled : f[1] \notin HandlerKinds
  /\ boot # "down"

\* C29: in every send the typing delay lies between the creation of the
\* PENDING row of that send and its transmit call: the delay starts only once
\* the row exists, and the transmit call is issued only once the delay is over.
C29_TypingBetweenRowAndTransmit ==
  [][/\ (call[DirectSlot].pc # "typing" /\ call'[DirectSlot].pc = "typing") =>
          \E j \in RowsOf(DirectSlot, call[DirectSlot].inst) :
            messageLog[j].status = "PENDING"
     /\ (\A w \in wire' \ wire :
           (w.op = "send" /\ w.slot = DirectSlot) =>
             /\ call[DirectSlot].pc # "typing"
             /\ RowsOf(DirectSlot, w.inst) # {})]_vars

\* C30: at every moment a sessionId has at most one live connection handle
\* and at most one reconnect attempt in flight, and a close event never starts
\* a reconnect for a session that already has an attempt in progress or a
\* live connection, whatever close events are delivered for the session
C30_OneHandleOneReconnect ==
  /\ [](\A s \in Sessions : conn[s].live <= 1 /\ conn[s].inflight <= 1)
  /\ [][\A s \in Sessions :
          conn'[s].reconnects > conn[s].reconnects =>
            conn[s].inflight = 0 /\ conn[s].live = 0]_vars

\* the status the last connection event delivered for session s asks for,
\* "none" while the newest connection of s has delivered no event
LastEventStatus(s) ==
  IF conn[s].state = "challenged" THEN "WAITING_QR"
  ELSE IF conn[s].state = "open" THEN "CONNECTED"
  ELSE IF conn[s].state = "closed" \/ conn[s].origin = "reconnect"
         THEN "DISCONNECTED"
  ELSE "none"

\* every delivered event of every session is handled and the persisted
\* status is the one of the last event delivered
C31_LastEventWins ==
  \A s \in Sessions :
    (conn[s].handlers = <<>> /\ LastEventStatus(s) # "none") =>
      devices[s].status = LastEventStatus(s)

\* C31: the connection events of one session are handled one after the other:
\* the handling of an event begins only when no earlier handler of the session
\* is still suspended, and once every delivered event is handled the persisted
\* status is the one of the last event delivered
C31_EventsHandledSerially ==
  /\ [][\A s \in Sessions :
          Len(conn'[s].handlers) > Len(conn[s].handlers) =>
            conn[s].handlers = <<>>]_vars
  /\ []C31_LastEventWins

\* campaign c has a sendMessage call that has begun and not yet settled
InFlight(c) == call[c].pc \notin {"idle", "done"}

\* C32: within one campaign the sends are strictly sequential: the send for
\* the next recipient begins only when the send for the recipient before it
\* has settled and its pacing sleep has been taken, and the recipients are
\* taken one by one in list order, so that a campaign never has more than one
\* send in flight
C32_OneSendPerCampaign ==
  /\ [][\A c \in CampaignIds :
          call'[c].inst # call[c].inst =>
            /\ ~InFlight(c)
            /\ call'[c].inst = call[c].inst + 1
            /\ call[c].inst > 0 =>
                 /\ bulk[c].phase = "sleep"
                 /\ Len(bulk[c].logged) = call[c].inst]_vars
  /\ [](\A c \in CampaignIds :
          /\ Len(bulk[c].attempted) - Len(bulk[c].logged) \in {0, 1}
          /\ InFlight(c) => /\ bulk[c].phase = "send"
                            /\ call[c].inst = bulk[c].index
                            /\ Len(bulk[c].logged) = bulk[c].index - 1)

\* the send for the second recipient of a campaign is in flight and the send
\* for the first has been logged
C32_Witness ==
  \E c \in CampaignIds :
    /\ InFlight(c)
    /\ call[c].inst = 2
    /\ Len(bulk[c].logged) = 1

\* the texts the stages return when slang substitution runs before the
\* uniqueness suffix
StatedOrder(rawText, hour) ==
  UNION { AddInvisibleUnique(t3) :
            t3 \in UNION { ApplyIndonesianSlang(t2) :
                     t2 \in UNION { ProcessSpintax(t1) :
                              t1 \in GetTimeBasedGreeting(rawText, hour) } } }

\* C33 as stated: the text variation pipeline runs greeting substitution,
\* spintax expansion, slang substitution and the uniqueness suffix in this
\* order, the suffix being the last stage applied to a rendered body
C33_SuffixIsLastStage ==
  (pure.fn = "stages" /\ pure.done) =>
    /\ pure.output.applied = <<"greeting", "spintax", "slang", "suffix">>
    /\ pure.output.applied[Len(pure.output.applied)] = "suffix"

\* C33 amended: the stages run in the order greeting substitution, spintax
\* expansion, uniqueness suffix, slang substitution, and the texts they can
\* return are exactly the texts the stated order can return
C33_SlangIsLastStage ==
  /\ (pure.fn = "stages" /\ pure.output.applied = <<>>) =>
       Processor(pure.input.text, pure.input.hour) =
         StatedOrder(pure.input.text, pure.input.hour)
  /\ (pure.fn = "stages" /\ pure.done) =>
       /\ pure.output.applied = <<"greeting", "spintax", "suffix", "slang">>
       /\ pure.output.txt \in StatedOrder(pure.input.text, pure.input.hour)

\* a body ending in 'yang' was rendered: the suffix was appended first and
\* the word in front of it was replaced afterwards
C33_Witness ==
  /\ pure.fn = "stages"
  /\ pure.done
  /\ pure.input.text # <<>>
  /\ pure.input.text[Len(pure.input.text)] = "yang"
  /\ \E p \in 1..(Len(pure.output.txt) - 1) :
       /\ pure.output.txt[p] = "yg"
       /\ pure.output.txt[p + 1] = ZeroWidthSpace

\* what send, sendBulk, end, upsertRule, acknowledgment handling and
\* inbound-message handling work on: every step of one of them changes some
\* of these variables
operationVars ==
  <<messageLog, campaigns, call, bulkCall, bulk, wire, nextMsgId, sends,
    endCall, ack, reply, autoReply, ruleCall>>

C35_ConnectedHasHandle ==
  /\ [](\A s \in Sessions :
          (boot = "up" /\ conn[s].state = "open" /\ devices[s].status = "CONNECTED")
            => clients[s] # 0)
  /\ [][\A s \in Sessions :
          (/\ devices'[s].status # devices[s].status
           /\ devices'[s].status \in {"WAITING_QR", "CONNECTED"}) =>
            clients[s] # 0]_vars

\* C36: an acknowledgment of our own for a message the protocol client has
\* accepted is reflected in the MessageLog row of that message, also when it
\* is handled before sendMessage has written SENT and the message id; and
\* the SENT write of sendMessage does not put the row behind an
\* acknowledgment already received for the message
C36_AckNeverLost ==
  [][/\ (ack'.n # ack.n /\ Tracked(ack'.upd) /\ ack'.upd.id <= nextMsgId) =>
          \E j \in DOMAIN messageLog' :
            /\ messageLog'[j].waMessageId = ack'.upd.id
            /\ messageLog'[j].status = StatusString(ack'.upd.status)
     /\ \A j \in DOMAIN messageLog :
          (/\ ack' = ack
           /\ messageLog[j].status # "SENT"
           /\ messageLog'[j].status = "SENT"
           /\ ack.n > 0
           /\ Tracked(ack.upd)
           /\ ack.upd.id = messageLog'[j].waMessageId) =>
            Rank("SENT") >= Rank(StatusString(ack.upd.status))]_vars

\* the sendMessage call that created row j has returned to its caller
Returned(j) ==
  LET c == call[messageLog[j].slot]
  IN \/ c.inst > messageLog[j].inst
     \/ c.inst = messageLog[j].inst /\ c.pc = "done"

\* C37: a sendMessage call that created a row and returned, with success or
\* with the structured failure, left the row SENT or FAILED; a row is PENDING
\* only while its call is between the creation of the row and its final
\* update, which is where the call stays when the process stops
C37_ReturnedSendLeavesNoPending ==
  \A j \in DOMAIN messageLog :
    LET c == call[messageLog[j].slot]
    IN /\ Returned(j) => messageLog[j].status \in {"SENT", "FAILED"}
       /\ (Returned(j) /\ c.inst = messageLog[j].inst) =>
            /\ c.outcome \in {"success", "failed"}
            /\ c.outcome = "success" <=> messageLog[j].status = "SENT"
       /\ messageLog[j].status = "PENDING" =>
            /\ c.inst = messageLog[j].inst
            /\ c.logId = j
            /\ c.pc \in {"created", "transmit", "updateSent", "catch"}

\* one send returned the structured failure and left its row FAILED; the
\* process stopped while the next one was waiting for its transmit
C37_Witness ==
  /\ boot = "down"
  /\ \E j, k \in DOMAIN messageLog :
       /\ Returned(j)
       /\ messageLog[j].status = "FAILED"
       /\ messageLog[k].status = "PENDING"
       /\ call[messageLog[k].slot].pc = "transmit"

\* C38: a step of the status tracker leaves every row whose waMessageId is
\* unassigned as it was, and a row that is FAILED with no waMessageId is
\* changed by no later step at all: it stays FAILED with a null id under
\* every sequence of acknowledgments
C38_TrackerSkipsUnassigned ==
  [][\A j \in DOMAIN messageLog :
       /\ (ack'.n # ack.n /\ messageLog[j].waMessageId = Null) =>
            messageLog'[j] = messageLog[j]
       /\ (messageLog[j].status = "FAILED" /\ messageLog[j].waMessageId = Null) =>
            messageLog'[j] = messageLog[j]]_vars

\* the transmit of a send threw, its row is FAILED with no id, and since then
\* the tracker has applied a tracked acknowledgment that changed another row
C38_Witness ==
  /\ ack.n > 0
  /\ Tracked(ack.upd)
  /\ \E j, k \in DOMAIN ack.before :
       /\ ack.before[j].status = "FAILED"
       /\ ack.before[j].waMessageId = Null
       /\ messageLog[j] = ack.before[j]
       /\ messageLog[k] # ack.before[k]

\* the slots whose sends are started by a campaign loop or by the auto-reply
LookupSlots == CampaignIds \cup {ReplySlot}

\* C39: when a per-recipient send of a campaign or an auto-reply send begins,
\* it takes the handle the registry holds at that moment; with no handle it
\* fails with SessionNotFound on the spot and no row is ever created for it,
\* and every protocol call of the send goes through the handle it took
C39_HandleLookedUpPerSend ==
  /\ [][\A x \in LookupSlots :
          call'[x].inst # call[x].inst =>
            LET sock == clients[call'[x].sessionId]
            IN /\ call'[x].sock = sock
               /\ sock = 0 =>
                    /\ call'[x].pc = "done"
                    /\ call'[x].outcome = "threw"
                    /\ call'[x].error = "SessionNotFound"
                    /\ messageLog' = messageLog
                    /\ wire' = wire
               /\ \A w \in wire' \ wire : w.sock = sock]_vars
  /\ [](\A x \in LookupSlots :
          /\ call[x].error = "SessionNotFound" => RowsOf(x, call[x].inst) = {}
          /\ \A w \in wire :
               (w.slot = x /\ w.inst = call[x].inst) => w.sock = call[x].sock)

\* a campaign whose first recipient was sent through the first socket and
\* whose second recipient, after a reconnect, through the second one
C39_Witness ==
  \E c \in CampaignIds :
    /\ call[c].inst = 2
    /\ call[c].sock = 2
    /\ clients[bulk[c].sessionId] = 2
    /\ \E w \in WireOf(c, 1, "send") : w.sock = 1
    /\ \E w \in WireOf(c, 2, "send") : w.sock = 2

\* endSession returned success for session s and the socket it logged out has
\* delivered its close event with the logout reason
LoggedOutClosed(s) ==
  /\ endCall.sessionId = s
  /\ endCall.outcome = "success"
  /\ endCall.sock = sockGen[s]
  /\ conn[s].state = "closed"
  /\ conn[s].lastLoggedOut

\* session s is over: no handle, no credentials, DISCONNECTED in the database,
\* and no initializeClient on its way
Ended(s) ==
  /\ clients[s] = 0
  /\ ~creds[s]
  /\ devices[s].status = "DISCONNECTED"
  /\ conn[s].state = "closed"
  /\ conn[s].inflight = 0

====
